---- MODULE Spec2Model ----
(***************************************************************************)
(* Model of the apollo42 NFT series contract                               *)
(* (src/apollo42-nft-contract/src/lib.rs).                                 *)
(*                                                                         *)
(* The contract state is the struct Contract (lib.rs:128-136) together     *)
(* with the fields of near_contract_standards' NonFungibleToken that the   *)
(* contract reads and writes directly (owner_by_id, token_metadata_by_id,  *)
(* tokens_per_owner, approvals_by_id, next_approval_id_by_id).  Every      *)
(* public method is one action.  A method that panics leaves the contract  *)
(* state unchanged (the host discards the writes of a failed receipt); the *)
(* variable last records which method ran and the panic message, events    *)
(* and payments record what the method logged and paid.                    *)
(*                                                                         *)
(* Options are sequences of length 0 or 1, maps are functions whose        *)
(* domain is the key set, a token id "s:n" is the pair <<s, n>>.           *)
(***************************************************************************)
EXTENDS Integers, Sequences, FiniteSets, TLC

VARIABLES
    series,                       \* token_series_by_id : "k" -> TokenSeries, k = 1..len
    owner_by_id,                  \* tokens.owner_by_id
    token_metadata_by_id,         \* tokens.token_metadata_by_id (issued_at only)
    tokens_per_owner,             \* tokens.tokens_per_owner
    approvals_by_id,              \* tokens.approvals_by_id
    next_approval_id_by_id,       \* tokens.next_approval_id_by_id
    transaction_fee,              \* TransactionFee {next_fee, start_time, current_fee}
    market_data_transaction_fee,  \* MarketDataTransactionFee.transaction_fee
    now,                          \* to_sec(env::block_timestamp())
    calls,                        \* promise chains started by nft_transfer_call
    last,                         \* the method that ran last and its panic message
    events,                       \* NearEvent / env::log records of the last method
    payments                      \* Promise transfers of the last method

ledger == <<owner_by_id, token_metadata_by_id, tokens_per_owner,
            approvals_by_id, next_approval_id_by_id>>
fees == <<transaction_fee, market_data_transaction_fee>>
contract == <<series, owner_by_id, token_metadata_by_id, tokens_per_owner,
              approvals_by_id, next_approval_id_by_id, transaction_fee,
              market_data_transaction_fee>>
vars == <<series, owner_by_id, token_metadata_by_id, tokens_per_owner,
          approvals_by_id, next_approval_id_by_id, transaction_fee,
          market_data_transaction_fee, now, calls, last, events, payments>>

---------------------------------------------------------------------------
(* Bounds of the model.                                                    *)

\* series created in one run
MaxSeries == 1
\* editions minted from one series in one run
MaxMint == 2
\* largest copies value a creator supplies to nft_create_series
MaxCopies == 2
\* largest decrease_copies argument
MaxDecrease == 3
\* approvals handed out per edition in one run
MaxApprovals == 2
\* nft_transfer_call chains started in one run
MaxCalls == 1
\* block time runs over 0..MaxTime
MaxTime == 1
\* sale amounts handed to the payout splitter run over 1..MaxBalance
MaxBalance == 12

---------------------------------------------------------------------------
(* Program constants.                                                      *)

\* lib.rs:35 MAX_PRICE = 10^33 yoctoNEAR, scaled to the model's price unit
MAX_PRICE == 20000
\* env::storage_byte_cost() * bytes written by a state-growing method
\* (lib.rs:1200), one unit in the model
STORAGE_COST == 1
\* u64::MAX of lib.rs:538, scaled: the model's u64 is 0..U64_MAX, and a
\* wrapped difference stays above every count the bounds allow
U64_MAX == MaxMint + MaxDecrease + 1
\* u32::MAX of the royalty sum (lib.rs:340), scaled as U64_MAX is
U32_MAX == 65535
\* denominator of fees and royalties (lib.rs:430, lib.rs:1151)
BASIS == 10000
\* new_default_meta's current_fee (lib.rs:170)
DEFAULT_FEE == 300

Accounts == {"alice", "bob", "carol"}
\* env::current_account_id(): the contract's own account
Self == "nft"
\* tokens.owner_id, the first argument of new (lib.rs:186)
OwnerId == "alice"
Callers == Accounts \cup {Self}

None == <<>>
Some(x) == <<x>>
IsSome(o) == o # <<>>
Unwrap(o) == o[1]

EmptyMap == [k \in {} |-> 0]
MapPut(m, k, v) == [x \in (DOMAIN m) \cup {k} |-> IF x = k THEN v ELSE m[x]]
MapDel(m, k) == [x \in (DOMAIN m) \ {k} |-> m[x]]
MapGet(m, k) == IF k \in DOMAIN m THEN Some(m[k]) ELSE None

\* format!("{}{}{}", token_series_id, TOKEN_DELIMETER, n)
TokenIdOf(s, n) == <<s, n>>
\* token_id.split(TOKEN_DELIMETER).next().unwrap().parse()
SeriesOf(token_id) == token_id[1]

\* UnorderedSet::insert on an insertion-ordered set
SetInsert(seq, x) == IF \E i \in 1..Len(seq) : seq[i] = x THEN seq ELSE Append(seq, x)

\* token_series_by_id.get(id)
SeriesGet(id) == IF id \in 1..Len(series) THEN Some(series[id]) ELSE None

Err(op, msg) == [op |-> op, err |-> msg, ret |-> <<>>]
Ok(op, ret) == [op |-> op, err |-> "", ret |-> ret]

\* A method that panics: the receipt's writes are discarded.
PanicKeep(op, msg) ==
    /\ last' = Err(op, msg)
    /\ events' = <<>>
    /\ payments' = <<>>
    /\ UNCHANGED <<contract, now>>

Panic(op, msg) == PanicKeep(op, msg) /\ UNCHANGED calls

---------------------------------------------------------------------------
Init ==
    /\ series = <<>>
    /\ owner_by_id = EmptyMap
    /\ token_metadata_by_id = EmptyMap
    /\ tokens_per_owner = EmptyMap
    /\ approvals_by_id = EmptyMap
    /\ next_approval_id_by_id = EmptyMap
    /\ transaction_fee = [next_fee |-> None, start_time |-> None, current_fee |-> DEFAULT_FEE]
    /\ market_data_transaction_fee = EmptyMap
    /\ now = 0
    /\ calls = <<>>
    /\ last = Ok("new", <<>>)
    /\ events = <<>>
    /\ payments = <<>>

\* current_fee arguments of new: new_default_meta's, the largest below the
\* denominator, the denominator, and twice the denominator (a u16)
NewFeeInputs == {DEFAULT_FEE, BASIS - 1, BASIS, 2 * BASIS}

\* lib.rs:174-203: the state after new(owner_id, treasury_id, metadata,
\* current_fee), which stores the current_fee it is given
InitNew ==
    /\ series = <<>>
    /\ owner_by_id = EmptyMap
    /\ token_metadata_by_id = EmptyMap
    /\ tokens_per_owner = EmptyMap
    /\ approvals_by_id = EmptyMap
    /\ next_approval_id_by_id = EmptyMap
    /\ \E current_fee \in NewFeeInputs :
           transaction_fee = [next_fee |-> None, start_time |-> None, current_fee |-> current_fee]
    /\ market_data_transaction_fee = EmptyMap
    /\ now = 0
    /\ calls = <<>>
    /\ last = Ok("new", <<>>)
    /\ events = <<>>
    /\ payments = <<>>

---------------------------------------------------------------------------
(* Inputs of the methods.                                                  *)

SeriesIds == 1..(MaxSeries + 1)
CopiesInputs == {None} \cup {Some(c) : c \in 0..MaxCopies}
PriceInputs == {None, Some(10000), Some(MAX_PRICE)}
Deposits == {0, 1, 10000, 10000 + STORAGE_COST}
TitleInputs == {None, Some("title")}
RoyaltyInputs ==
    { None,
      Some([k \in {"bob"} |-> 1000]),
      Some([k \in {"bob", "carol"} |-> 3000]),
      Some([k \in {"Bad Account"} |-> 10]) }
NextFeeInputs == {100, 200, BASIS}
StartTimeInputs == {None} \cup {Some(t) : t \in 0..(MaxTime + 1)}

\* accounts a royalty table may name
RoyaltyParties ==
    {"bob", "carol", "dave", "erin", "frank", "grace", "heidi", "ivan", "judy",
     "mallory", "niaj"}

\* near_sdk::env::is_valid_account_id
is_valid_account_id(a) == a \in Callers \cup RoyaltyParties

RECURSIVE SumValues(_, _)
SumValues(m, keys) ==
    IF keys = {} THEN 0
    ELSE LET k == CHOOSE x \in keys : TRUE
         IN  m[k] + SumValues(m, keys \ {k})

---------------------------------------------------------------------------
(* Fee schedule (lib.rs:228-290).                                          *)

\* a comparison that lets a fee wait one second longer than its start_time
calculate_current_transaction_fee_late(tf, t) ==
    IF IsSome(tf.next_fee) /\ t > Unwrap(tf.start_time)
    THEN [next_fee |-> None, start_time |-> None, current_fee |-> Unwrap(tf.next_fee)]
    ELSE tf

\* self.transaction_fee after calculate_current_transaction_fee ran at time t
calculate_current_transaction_fee(tf, t) ==
    IF IsSome(tf.next_fee) /\ t >= Unwrap(tf.start_time)
    THEN [next_fee |-> None, start_time |-> None, current_fee |-> Unwrap(tf.next_fee)]
    ELSE tf

\* the fee calculate_market_data_transaction_fee returns for a series id
calculate_market_data_transaction_fee(id) ==
    IF id \in DOMAIN market_data_transaction_fee
    THEN market_data_transaction_fee[id]
    ELSE calculate_current_transaction_fee(transaction_fee, now).current_fee

\* a view that reads the global fee whatever the series
get_market_data_transaction_fee_global(id) == transaction_fee.current_fee

\* the view get_market_data_transaction_fee
get_market_data_transaction_fee(id) ==
    IF id \in DOMAIN market_data_transaction_fee
    THEN market_data_transaction_fee[id]
    ELSE transaction_fee.current_fee

\* the view get_transaction_fee (lib.rs:280-282)
get_transaction_fee == transaction_fee

\* an owner check that was left out
set_transaction_fee_error_anyone(caller, attached, next_fee, start_time) ==
    IF attached # 1 THEN "Requires attached deposit of exactly 1 yoctoNEAR"
    ELSE IF ~(next_fee < BASIS) THEN "Transaction fee is more than 10_000"
    ELSE IF IsSome(start_time) /\ ~(Unwrap(start_time) > now)
    THEN "start_time is less than current block_timestamp"
    ELSE ""

\* the panic set_transaction_fee ends in (lib.rs:230-251), "" when it returns
set_transaction_fee_error(caller, attached, next_fee, start_time) ==
    IF attached # 1 THEN "Requires attached deposit of exactly 1 yoctoNEAR"
    ELSE IF caller # OwnerId THEN "Owner only"
    ELSE IF ~(next_fee < BASIS) THEN "Transaction fee is more than 10_000"
    ELSE IF IsSome(start_time) /\ ~(Unwrap(start_time) > now)
    THEN "start_time is less than current block_timestamp"
    ELSE ""

\* an immediate change that leaves the stage where it was
immediate_fee_stage_kept(tf, next_fee) == [tf EXCEPT !.current_fee = next_fee]

\* lib.rs:242-246: the schedule after a change without start_time
immediate_fee(tf, next_fee) ==
    [next_fee |-> None, start_time |-> None, current_fee |-> next_fee]

\* lib.rs:247-255: the schedule after a change with a start_time
staged_fee(tf, next_fee, start_time) ==
    [tf EXCEPT !.next_fee = Some(next_fee), !.start_time = start_time]

\* set_transaction_fee (lib.rs:228-256); last keeps the arguments and the
\* schedule the call found
set_transaction_fee(caller, attached, next_fee, start_time) ==
    LET err == set_transaction_fee_error(caller, attached, next_fee, start_time) IN
    /\ last' = [ op |-> "set_transaction_fee", err |-> err, ret |-> <<>>,
                 args |-> [caller |-> caller, next_fee |-> next_fee,
                           start_time |-> start_time],
                 before |-> transaction_fee ]
    /\ transaction_fee' =
           IF err # "" THEN transaction_fee
           ELSE IF start_time = None THEN immediate_fee(transaction_fee, next_fee)
           ELSE staged_fee(transaction_fee, next_fee, start_time)
    /\ events' = <<>>
    /\ payments' = <<>>
    /\ UNCHANGED <<series, ledger, market_data_transaction_fee, now, calls>>

\* calculate_current_transaction_fee called as a method (lib.rs:268-278: pub fn
\* of the #[near_bindgen] impl); last keeps the schedule the call found
CalculateCurrentTransactionFee ==
    LET fee_after == calculate_current_transaction_fee(transaction_fee, now) IN
    /\ transaction_fee' = fee_after
    /\ last' = [ op |-> "calculate_current_transaction_fee", err |-> "",
                 ret |-> fee_after.current_fee, before |-> transaction_fee ]
    /\ events' = <<>>
    /\ payments' = <<>>
    /\ UNCHANGED <<series, ledger, market_data_transaction_fee, now, calls>>

\* calculate_market_data_transaction_fee called as a method (lib.rs:258-265)
CalculateMarketDataTransactionFee(token_series_id) ==
    /\ transaction_fee' =
           IF token_series_id \in DOMAIN market_data_transaction_fee
           THEN transaction_fee
           ELSE calculate_current_transaction_fee(transaction_fee, now)
    /\ last' = [ op |-> "calculate_market_data_transaction_fee", err |-> "",
                 ret |-> calculate_market_data_transaction_fee(token_series_id),
                 before |-> transaction_fee ]
    /\ events' = <<>>
    /\ payments' = <<>>
    /\ UNCHANGED <<series, ledger, market_data_transaction_fee, now, calls>>

\* the block time moves on between receipts
Tick ==
    /\ now < MaxTime
    /\ now' = now + 1
    /\ last' = Ok("tick", <<>>)
    /\ events' = <<>>
    /\ payments' = <<>>
    /\ UNCHANGED <<contract, calls>>

---------------------------------------------------------------------------
(* Series registry and minting (lib.rs:307-723).                           *)

\* a ceiling that admits MAX_PRICE itself
price_allowed_inclusive(price) == ~IsSome(price) \/ Unwrap(price) <= MAX_PRICE

\* lib.rs:356-360 and lib.rs:696-700: a price is absent or below MAX_PRICE
price_allowed(price) == ~IsSome(price) \/ Unwrap(price) < MAX_PRICE

\* an identifier counted from 0
next_series_id_from_zero(len) == len

\* lib.rs:322: format!("{}", self.token_series_by_id.len() + 1)
next_series_id(len) == len + 1

\* lib.rs:333-341: total_perpetual += *v over the u32 values of the table, as
\* a build without overflow checks computes it
WrappingSum32(royalty_res) == SumValues(royalty_res, DOMAIN royalty_res) % (U32_MAX + 1)

\* nft_create_series (lib.rs:307-410); overflow_checks: whether the build
\* panics on integer overflow
nft_create_series(caller, creator_id, title, copies, price, royalty, attached) ==
    \E overflow_checks \in BOOLEAN :
    LET op == "nft_create_series"
        token_series_id == next_series_id(Len(series))
        royalty_res == IF IsSome(royalty) THEN Unwrap(royalty) ELSE EmptyMap
        total_perpetual == WrappingSum32(royalty_res)
        total_accounts == Cardinality(DOMAIN royalty_res)
        fee_after == calculate_current_transaction_fee(transaction_fee, now)
        current_transaction_fee == fee_after.current_fee
    IN
    IF IsSome(creator_id) /\ Unwrap(creator_id) # caller
    THEN Panic(op, "Caller is not creator_id")
    ELSE IF IsSome(SeriesGet(token_series_id)) THEN Panic(op, "Duplicate token_series_id")
    ELSE IF ~IsSome(title) THEN Panic(op, "Token_metadata.title is required")
    ELSE IF \E k \in DOMAIN royalty_res : ~is_valid_account_id(k)
    THEN Panic(op, "Not valid account_id for royalty")
    ELSE IF overflow_checks /\ SumValues(royalty_res, DOMAIN royalty_res) > U32_MAX
    THEN Panic(op, "attempt to add with overflow")
    ELSE IF ~(total_accounts <= 10) THEN Panic(op, "Royalty exceeds 10 accounts")
    ELSE IF ~(total_perpetual <= 5000) THEN Panic(op, "Exceeds maximum royalty -> 50%")
    ELSE IF ~price_allowed(price) THEN Panic(op, "Price is higher than")
    ELSE IF ~(STORAGE_COST <= attached) THEN Panic(op, "Must attach yoctoNEAR to cover storage")
    ELSE
        /\ series' = Append(series,
                [ metadata |-> [title |-> title, copies |-> copies],
                  creator_id |-> caller,
                  tokens |-> <<>>,
                  price |-> price,
                  is_mintable |-> TRUE,
                  royalty |-> royalty_res ])
        /\ transaction_fee' = fee_after
        /\ market_data_transaction_fee' =
               MapPut(market_data_transaction_fee, token_series_id, current_transaction_fee)
        /\ last' = Ok(op, [token_series_id |-> token_series_id,
                           transaction_fee |-> Some(current_transaction_fee)])
        /\ events' = << [type |-> "nft_create_series", id |-> token_series_id,
                         fee |-> current_transaction_fee] >>
        /\ payments' = <<>>
        /\ UNCHANGED <<ledger, now, calls>>

\* u64 subtraction that wrapped (a build without overflow checks)
WrappingSub64(a, b) == IF a >= b THEN a - b ELSE a - b + U64_MAX + 1

\* an off-by-one slip in the assertion of lib.rs:539
supply_not_maxed_off_by_one(num_tokens, max_copies) == num_tokens <= max_copies

\* the assertion of lib.rs:539
supply_not_maxed(num_tokens, max_copies) == num_tokens < max_copies

\* is_mintable after the test of lib.rs:541-543
mintable_after_mint(is_mintable, num_tokens, max_copies) ==
    IF (num_tokens + 1) >= max_copies THEN FALSE ELSE is_mintable

\* the assertion of lib.rs:531-534
series_mintable(token_series) == token_series.is_mintable

\* an edition number counted from 0
edition_number_from_zero(num_tokens) == num_tokens

\* lib.rs:545: the edition number in format!("{}{}{}", token_series_id,
\* TOKEN_DELIMETER, num_tokens + 1)
edition_number(num_tokens) == num_tokens + 1

\* _nft_mint_series: the panic message ("" when it returns) and the fields it writes
_nft_mint_series(token_series_id, receiver_id) ==
    LET got == SeriesGet(token_series_id) IN
    IF ~IsSome(got) THEN [err |-> "Token series does not exist"]
    ELSE
    LET token_series == Unwrap(got)
        num_tokens == Len(token_series.tokens)
        max_copies == IF IsSome(token_series.metadata.copies)
                      THEN Unwrap(token_series.metadata.copies) ELSE U64_MAX
        token_id == TokenIdOf(token_series_id, edition_number(num_tokens))
        owner_id == receiver_id
        token_ids == IF owner_id \in DOMAIN tokens_per_owner
                     THEN tokens_per_owner[owner_id] ELSE {}
    IN
    IF ~series_mintable(token_series) THEN [err |-> "Token series is not mintable"]
    ELSE IF ~supply_not_maxed(num_tokens, max_copies) THEN [err |-> "Series supply maxed"]
    ELSE [ err |-> "",
           token_id |-> token_id,
           series |-> [series EXCEPT ![token_series_id] =
                [token_series EXCEPT
                    !.is_mintable = mintable_after_mint(token_series.is_mintable,
                                                        num_tokens, max_copies),
                    !.tokens = SetInsert(token_series.tokens, token_id)]],
           owner_by_id |-> MapPut(owner_by_id, token_id, owner_id),
           token_metadata_by_id |-> MapPut(token_metadata_by_id, token_id, now),
           tokens_per_owner |-> MapPut(tokens_per_owner, owner_id, token_ids \cup {token_id}) ]

\* the model mints at most MaxMint editions from a series
MintBound(token_series_id) ==
    token_series_id \in 1..Len(series) => Len(series[token_series_id].tokens) < MaxMint

\* u128::MAX of the balances (lib.rs:431), scaled: above every product of a
\* price and a fee of the model divided by BASIS
U128_MAX == 1048575

\* u128 subtraction that wrapped (a build without overflow checks)
WrappingSub128(a, b) == (a - b) % (U128_MAX + 1)

nft_buy(caller, token_series_id, receiver_id, attached) ==
    \E overflow_checks \in BOOLEAN :
    LET op == "nft_buy"
        got == SeriesGet(token_series_id)
    IN
    /\ MintBound(token_series_id)
    /\ IF ~IsSome(got) THEN Panic(op, "Token series not exist")
       ELSE
       LET token_series == Unwrap(got) IN
       IF ~IsSome(token_series.price) THEN Panic(op, "Not for sale.")
       ELSE
       LET price == Unwrap(token_series.price)
           m == _nft_mint_series(token_series_id, receiver_id)
           fee == calculate_market_data_transaction_fee(token_series_id)
           for_treasury == (price * fee) \div BASIS
           price_deducted == WrappingSub128(price, for_treasury)
       IN
       IF ~(attached >= price) THEN Panic(op, "Attached deposit is less than price")
       ELSE IF m.err # "" THEN Panic(op, m.err)
       ELSE IF overflow_checks /\ for_treasury > price
       THEN Panic(op, "attempt to subtract with overflow")
       ELSE IF ~(STORAGE_COST <= attached - price)
       THEN Panic(op, "Must attach yoctoNEAR to cover storage")
       ELSE
           /\ series' = m.series
           /\ owner_by_id' = m.owner_by_id
           /\ token_metadata_by_id' = m.token_metadata_by_id
           /\ tokens_per_owner' = m.tokens_per_owner
           /\ transaction_fee' =
                  IF token_series_id \in DOMAIN market_data_transaction_fee
                  THEN transaction_fee
                  ELSE calculate_current_transaction_fee(transaction_fee, now)
           /\ payments' = << <<token_series.creator_id, price_deducted>> >>
                          \o (IF for_treasury # 0 THEN << <<"treasury", for_treasury>> >>
                              ELSE <<>>)
           /\ events' = << [type |-> "nft_mint", id |-> m.token_id, fee |-> 0] >>
           /\ last' = Ok(op, m.token_id)
           /\ UNCHANGED <<approvals_by_id, next_approval_id_by_id,
                          market_data_transaction_fee, now, calls>>

nft_mint(caller, token_series_id, receiver_id, attached) ==
    LET op == "nft_mint"
        got == SeriesGet(token_series_id)
    IN
    /\ MintBound(token_series_id)
    /\ IF ~IsSome(got) THEN Panic(op, "Token series not exist.")
       ELSE
       LET token_series == Unwrap(got)
           m == _nft_mint_series(token_series_id, receiver_id)
       IN
       IF caller # token_series.creator_id THEN Panic(op, "Not a creator.")
       ELSE IF m.err # "" THEN Panic(op, m.err)
       ELSE IF ~(STORAGE_COST <= attached) THEN Panic(op, "Must attach yoctoNEAR to cover storage")
       ELSE
           /\ series' = m.series
           /\ owner_by_id' = m.owner_by_id
           /\ token_metadata_by_id' = m.token_metadata_by_id
           /\ tokens_per_owner' = m.tokens_per_owner
           /\ events' = << [type |-> "nft_mint", id |-> m.token_id, fee |-> 0] >>
           /\ payments' = <<>>
           /\ last' = Ok(op, m.token_id)
           /\ UNCHANGED <<approvals_by_id, next_approval_id_by_id, fees, now, calls>>

\* a counter that is not moved on
next_approval_id_after_same(approval_id) == approval_id

\* lib.rs:501 and NonFungibleToken::nft_approve: the counter after an
\* approval_id was handed out
next_approval_id_after(approval_id) == approval_id + 1

\* an edition minted straight to the approved account
mint_and_approve_owner_approved(token_series, account_id) == account_id

\* lib.rs:483: the edition is minted to the creator of the series
mint_and_approve_owner(token_series, account_id) == token_series.creator_id

nft_mint_and_approve(caller, token_series_id, account_id, msg, attached) ==
    LET op == "nft_mint_and_approve"
        got == SeriesGet(token_series_id)
    IN
    /\ MintBound(token_series_id)
    /\ IF ~IsSome(got) THEN Panic(op, "Token series not exist")
       ELSE
       LET token_series == Unwrap(got)
           m == _nft_mint_series(token_series_id,
                                 mint_and_approve_owner(token_series, account_id))
       IN
       IF caller # token_series.creator_id THEN Panic(op, "Not a creator")
       ELSE IF m.err # "" THEN Panic(op, m.err)
       ELSE IF ~(STORAGE_COST <= attached) THEN Panic(op, "Must attach yoctoNEAR to cover storage")
       ELSE
       LET token_id == m.token_id
           approved_account_ids == IF token_id \in DOMAIN approvals_by_id
                                   THEN approvals_by_id[token_id] ELSE EmptyMap
           approval_id == IF token_id \in DOMAIN next_approval_id_by_id
                          THEN next_approval_id_by_id[token_id] ELSE 1
       IN
           /\ series' = m.series
           /\ owner_by_id' = m.owner_by_id
           /\ token_metadata_by_id' = m.token_metadata_by_id
           /\ tokens_per_owner' = m.tokens_per_owner
           /\ approvals_by_id' = MapPut(approvals_by_id, token_id,
                                        MapPut(approved_account_ids, account_id, approval_id))
           /\ next_approval_id_by_id' = MapPut(next_approval_id_by_id, token_id,
                                            next_approval_id_after(approval_id))
           /\ events' = << [type |-> "nft_mint", id |-> token_id, fee |-> 0] >>
           /\ payments' = <<>>
           /\ last' = Ok(op, IF IsSome(msg) THEN Some([hook |-> "nft_on_approve",
                                                      to |-> account_id,
                                                      approval_id |-> approval_id])
                             ELSE None)
           /\ UNCHANGED <<fees, now, calls>>

\* a refusal that does not look at the cap
set_series_non_mintable_error_any_cap(caller, token_series) == IF caller # token_series.creator_id THEN "Creator only" ELSE IF token_series.is_mintable # TRUE THEN "Already non-mintable" ELSE ""

\* the assertions of lib.rs:596-612 on the series read: the panic message,
\* "" when all three pass
set_series_non_mintable_error(caller, token_series) == IF caller # token_series.creator_id THEN "Creator only" ELSE IF token_series.is_mintable # TRUE THEN "Already non-mintable" ELSE IF token_series.metadata.copies # None THEN "Decrease supply if copies not null" ELSE ""

nft_set_series_non_mintable(caller, token_series_id, attached) ==
    LET op == "nft_set_series_non_mintable"
        got == SeriesGet(token_series_id)
    IN
    IF attached # 1 THEN Panic(op, "Requires attached deposit of exactly 1 yoctoNEAR")
    ELSE IF ~IsSome(got) THEN Panic(op, "Token series not exist")
    ELSE
    LET token_series == Unwrap(got) IN
    IF set_series_non_mintable_error(caller, token_series) # ""
    THEN Panic(op, set_series_non_mintable_error(caller, token_series))
    ELSE
        /\ series' = [series EXCEPT ![token_series_id].is_mintable = FALSE]
        /\ events' = << [type |-> "nft_set_series_non_mintable", id |-> token_series_id,
                         fee |-> 0] >>
        /\ payments' = <<>>
        /\ last' = Ok(op, <<>>)
        /\ UNCHANGED <<ledger, fees, now, calls>>

\* the assertion of lib.rs:646-649 on the difference the build computed
decrease_allowed(new_copies, minted_copies) == new_copies >= minted_copies

\* a flag recomputed from the new cap
mintable_after_decrease_recomputed(is_mintable, new_copies, minted_copies) == new_copies # minted_copies

\* lib.rs:651-656: the flag is cleared when the new cap equals the minted
\* count and is left alone otherwise
mintable_after_decrease(is_mintable, new_copies, minted_copies) == IF new_copies = minted_copies THEN FALSE ELSE is_mintable

\* overflow_checks: whether the build panics on integer overflow
nft_decrease_series_copies(caller, token_series_id, decrease_copies, attached, overflow_checks) ==
    LET op == "nft_decrease_series_copies"
        got == SeriesGet(token_series_id)
    IN
    IF attached # 1 THEN Panic(op, "Requires attached deposit of exactly 1 yoctoNEAR")
    ELSE IF ~IsSome(got) THEN Panic(op, "Token series not exist")
    ELSE
    LET token_series == Unwrap(got)
        minted_copies == Len(token_series.tokens)
    IN
    IF caller # token_series.creator_id THEN Panic(op, "Creator only")
    ELSE IF ~IsSome(token_series.metadata.copies)
    THEN Panic(op, "called Option::unwrap() on a None value")
    ELSE
    LET copies == Unwrap(token_series.metadata.copies)
        new_copies == WrappingSub64(copies, decrease_copies)
    IN
    IF decrease_copies > copies /\ overflow_checks
    THEN Panic(op, "attempt to subtract with overflow")
    ELSE IF ~decrease_allowed(new_copies, minted_copies)
    THEN Panic(op, "Cannot decrease supply, already minted")
    ELSE
        /\ series' = [series EXCEPT ![token_series_id] =
               [token_series EXCEPT
                   !.is_mintable = mintable_after_decrease(token_series.is_mintable,
                                                           new_copies, minted_copies),
                   !.metadata.copies = Some(new_copies)]]
        /\ events' = << [type |-> "nft_decrease_series_copies", id |-> token_series_id,
                         fee |-> 0] >>
        /\ payments' = <<>>
        /\ last' = Ok(op, new_copies)
        /\ UNCHANGED <<ledger, fees, now, calls>>

\* a price change that snapshots current_fee without advancing the schedule
nft_set_series_price_stale_fee(caller, token_series_id, price, attached) ==
    LET op == "nft_set_series_price"
        got == SeriesGet(token_series_id)
        fee_after == transaction_fee
    IN
    IF attached # 1 THEN Panic(op, "Requires attached deposit of exactly 1 yoctoNEAR")
    ELSE IF ~IsSome(got) THEN Panic(op, "Token series not exist")
    ELSE
    LET token_series == Unwrap(got) IN
    IF caller # token_series.creator_id THEN Panic(op, "Creator only")
    ELSE IF token_series.is_mintable # TRUE THEN Panic(op, "Token series is not mintable")
    ELSE IF ~price_allowed(price) THEN Panic(op, "Price is higher than")
    ELSE
        /\ series' = [series EXCEPT ![token_series_id].price = price]
        /\ transaction_fee' = fee_after
        /\ market_data_transaction_fee' =
               MapPut(market_data_transaction_fee, token_series_id, fee_after.current_fee)
        /\ events' = << [type |-> "nft_set_series_price", id |-> token_series_id,
                         fee |-> fee_after.current_fee] >>
        /\ payments' = <<>>
        /\ last' = Ok(op, price)
        /\ UNCHANGED <<ledger, now, calls>>

\* nft_set_series_price (lib.rs:676-723)
nft_set_series_price(caller, token_series_id, price, attached) ==
    LET op == "nft_set_series_price"
        got == SeriesGet(token_series_id)
        fee_after == calculate_current_transaction_fee(transaction_fee, now)
    IN
    IF attached # 1 THEN Panic(op, "Requires attached deposit of exactly 1 yoctoNEAR")
    ELSE IF ~IsSome(got) THEN Panic(op, "Token series not exist")
    ELSE
    LET token_series == Unwrap(got) IN
    IF caller # token_series.creator_id THEN Panic(op, "Creator only")
    ELSE IF token_series.is_mintable # TRUE THEN Panic(op, "Token series is not mintable")
    ELSE IF ~price_allowed(price) THEN Panic(op, "Price is higher than")
    ELSE
        /\ series' = [series EXCEPT ![token_series_id].price = price]
        /\ transaction_fee' = fee_after
        /\ market_data_transaction_fee' =
               MapPut(market_data_transaction_fee, token_series_id, fee_after.current_fee)
        /\ events' = << [type |-> "nft_set_series_price", id |-> token_series_id,
                         fee |-> fee_after.current_fee] >>
        /\ payments' = <<>>
        /\ last' = Ok(op, price)
        /\ UNCHANGED <<ledger, now, calls>>

---------------------------------------------------------------------------
(* Ownership ledger: near_contract_standards' NonFungibleToken as the      *)
(* contract uses it (lib.rs:878-985, 1156, 1165-1195).                     *)

TokenInputs == {TokenIdOf(s, n) : s \in 1..MaxSeries, n \in 1..MaxMint}
ApprovalIdInputs == {None} \cup {Some(a) : a \in 1..MaxApprovals}
OneYocto == {0, 1}

\* promise chains of nft_transfer_call whose resolve has not run
Pending(c) == c.stage \in {"hook", "returned"}

\* history: a transfer of token_id happened while these chains were pending
MarkMoved(cs, token_id) ==
    [i \in DOMAIN cs |->
        IF cs[i].token_id = token_id /\ Pending(cs[i])
        THEN [cs[i] EXCEPT !.moved = TRUE] ELSE cs[i]]

\* a transfer that adds the token to the receiver's set and leaves the sender's
internal_transfer_unguarded_sender_kept(token_id, from, to) == MapPut(tokens_per_owner, to, (IF to \in DOMAIN tokens_per_owner THEN tokens_per_owner[to] ELSE {}) \cup {token_id})

\* NonFungibleToken::internal_transfer_unguarded: tokens_per_owner afterwards
internal_transfer_unguarded(token_id, from, to) ==
    LET owner_tokens == tokens_per_owner[from] \ {token_id}
        without == IF owner_tokens = {} THEN MapDel(tokens_per_owner, from)
                   ELSE MapPut(tokens_per_owner, from, owner_tokens)
        receiver_tokens == IF to \in DOMAIN without THEN without[to] ELSE {}
    IN  MapPut(without, to, receiver_tokens \cup {token_id})

\* the authorization test of NonFungibleToken::internal_transfer; "" when authorized
transfer_authorization(sender_id, owner_id, approved_account_ids, approval_id) ==
    IF sender_id = owner_id THEN ""
    ELSE IF ~IsSome(approved_account_ids) THEN "Unauthorized"
    ELSE IF sender_id \notin DOMAIN Unwrap(approved_account_ids) THEN "Sender not approved"
    ELSE IF IsSome(approval_id) /\ Unwrap(approved_account_ids)[sender_id] # Unwrap(approval_id)
    THEN "The actual approval_id is different from the given approval_id"
    ELSE ""

\* a transfer that removes the approval it used and keeps the others
approvals_after_transfer_used_only(approvals, token_id, sender_id) == IF token_id \in DOMAIN approvals /\ sender_id \in DOMAIN approvals[token_id] THEN MapPut(approvals, token_id, MapDel(approvals[token_id], sender_id)) ELSE approvals

\* NonFungibleToken::internal_transfer: by_id.remove(&token_id), the whole
\* approval table of the token goes, whoever sends
approvals_after_transfer(approvals, token_id, sender_id) == MapDel(approvals, token_id)

\* NonFungibleToken::internal_transfer: the panic message ("" when it returns),
\* the pair it returns and the fields it writes
internal_transfer(sender_id, receiver_id, token_id, approval_id) ==
    IF token_id \notin DOMAIN owner_by_id THEN [err |-> "Token not found"]
    ELSE
    LET owner_id == owner_by_id[token_id]
        approved_account_ids == MapGet(approvals_by_id, token_id)
        auth == transfer_authorization(sender_id, owner_id, approved_account_ids, approval_id)
    IN
    IF auth # "" THEN [err |-> auth]
    ELSE IF owner_id = receiver_id THEN [err |-> "Current and next owner must differ"]
    ELSE [ err |-> "",
           previous_owner_id |-> owner_id,
           old_approvals |-> approved_account_ids,
           owner_by_id |-> MapPut(owner_by_id, token_id, receiver_id),
           tokens_per_owner |-> internal_transfer_unguarded(token_id, owner_id, receiver_id),
           approvals_by_id |-> approvals_after_transfer(approvals_by_id, token_id, sender_id) ]

transfer_event(previous_owner_id, receiver_id, token_id, sender_id) ==
    [ type |-> "nft_transfer", old_owner_id |-> previous_owner_id,
      new_owner_id |-> receiver_id, token_id |-> token_id,
      authorized_id |-> IF sender_id # previous_owner_id THEN Some(sender_id) ELSE None ]

\* the writes of a transfer that returned
\* a transfer that forgets to write the new owner
ApplyTransfer_owner_kept(op, t, receiver_id, token_id, sender_id, ret) ==
    /\ owner_by_id' = owner_by_id
    /\ tokens_per_owner' = t.tokens_per_owner
    /\ approvals_by_id' = t.approvals_by_id
    /\ events' = << transfer_event(t.previous_owner_id, receiver_id, token_id, sender_id) >>
    /\ payments' = <<>>
    /\ last' = Ok(op, ret)
    /\ UNCHANGED <<series, token_metadata_by_id, next_approval_id_by_id, fees, now>>

\* what a successful internal_transfer writes, with the transfer record logged
ApplyTransfer(op, t, receiver_id, token_id, sender_id, ret) ==
    /\ owner_by_id' = t.owner_by_id
    /\ tokens_per_owner' = t.tokens_per_owner
    /\ approvals_by_id' = t.approvals_by_id
    /\ events' = << transfer_event(t.previous_owner_id, receiver_id, token_id, sender_id) >>
    /\ payments' = <<>>
    /\ last' = Ok(op, ret)
    /\ UNCHANGED <<series, token_metadata_by_id, next_approval_id_by_id, fees, now>>

nft_transfer_unsafe(caller, receiver_id, token_id, approval_id, attached) ==
    LET op == "nft_transfer_unsafe"
        t == internal_transfer(caller, receiver_id, token_id, approval_id)
    IN
    IF attached # 0 THEN Panic(op, "Method doesn't accept deposit")
    ELSE IF t.err # "" THEN Panic(op, t.err)
    ELSE /\ ApplyTransfer(op, t, receiver_id, token_id, caller, <<>>)
         /\ calls' = MarkMoved(calls, token_id)

nft_transfer(caller, receiver_id, token_id, approval_id, attached) ==
    LET op == "nft_transfer"
        t == internal_transfer(caller, receiver_id, token_id, approval_id)
    IN
    IF token_id \notin DOMAIN owner_by_id THEN Panic(op, "Token not found")
    ELSE IF attached # 1 THEN Panic(op, "Requires attached deposit of exactly 1 yoctoNEAR")
    ELSE IF t.err # "" THEN Panic(op, t.err)
    ELSE /\ ApplyTransfer(op, t, receiver_id, token_id, caller, <<>>)
         /\ calls' = MarkMoved(calls, token_id)

\* the promise chain nft_transfer_call leaves behind: nft_on_transfer at the
\* receiver, then nft_resolve_transfer at the contract with these arguments
\* a callback scheduled beside the hook instead of chained behind it
scheduled_call_unchained(t, receiver_id, token_id) ==
    [ previous_owner_id |-> t.previous_owner_id,
      receiver_id |-> receiver_id,
      token_id |-> token_id,
      approved_account_ids |-> t.old_approvals,
      stage |-> "returned",
      result |-> "none",
      prior_approvals |-> IF IsSome(t.old_approvals) THEN Unwrap(t.old_approvals) ELSE EmptyMap,
      prior_next_id |-> IF token_id \in DOMAIN next_approval_id_by_id
                        THEN next_approval_id_by_id[token_id] ELSE 1,
      moved |-> FALSE,
      resolved |-> 0 ]

\* lib.rs:966-984: the promise nft_transfer_call returns, the hook on the
\* receiver and then the callback with what phase 1 removed
scheduled_call(t, receiver_id, token_id) ==
    [ previous_owner_id |-> t.previous_owner_id,
      receiver_id |-> receiver_id,
      token_id |-> token_id,
      approved_account_ids |-> t.old_approvals,
      stage |-> "hook",
      result |-> "none",
      \* history
      prior_approvals |-> IF IsSome(t.old_approvals) THEN Unwrap(t.old_approvals) ELSE EmptyMap,
      prior_next_id |-> IF token_id \in DOMAIN next_approval_id_by_id
                        THEN next_approval_id_by_id[token_id] ELSE 1,
      moved |-> FALSE,
      resolved |-> 0 ]

nft_transfer_call(caller, receiver_id, token_id, approval_id, attached) ==
    LET op == "nft_transfer_call"
        t == internal_transfer(caller, receiver_id, token_id, approval_id)
    IN
    /\ Len(calls) < MaxCalls
    /\ IF attached # 1 THEN Panic(op, "Requires attached deposit of exactly 1 yoctoNEAR")
       ELSE IF t.err # "" THEN Panic(op, t.err)
       ELSE /\ ApplyTransfer(op, t, receiver_id, token_id, caller, <<>>)
            /\ calls' = Append(MarkMoved(calls, token_id),
                               scheduled_call(t, receiver_id, token_id))

\* what the receiver's nft_on_transfer can hand back: false (keep), true
\* (return the token), a value that is no bool, or a failed execution
HookResults == {"keep", "return", "malformed", "failed"}

\* the receiver's hook runs, in a receipt of its own, and its result is recorded
nft_on_transfer(i, result) ==
    /\ i \in DOMAIN calls
    /\ calls[i].stage = "hook"
    /\ calls' = [calls EXCEPT ![i].stage = "returned", ![i].result = result]
    /\ last' = Ok("nft_on_transfer", i)
    /\ events' = <<>>
    /\ payments' = <<>>
    /\ UNCHANGED <<contract, now>>

\* must_revert of NonFungibleToken::nft_resolve_transfer: the token goes back
\* unless the hook answered false
must_revert(promise_result) == promise_result # "keep"

\* approvals_by_id after the rollback of NonFungibleToken::nft_resolve_transfer
\* (near-contract-standards 3.x, core_impl.rs):
\*     if let Some(receiver_approvals) = by_id.get(&token_id) { refund ... }
\*     if let Some(previous_owner_approvals) = approved_account_ids {
\*         by_id.insert(&token_id, &previous_owner_approvals); }
\* the receiver's approvals are read, the previous owner's are written back
\* when there were any
restore_approvals(token_id, approved_account_ids) ==
    IF IsSome(approved_account_ids)
    THEN MapPut(approvals_by_id, token_id, Unwrap(approved_account_ids))
    ELSE approvals_by_id

\* a resolve that rolls back whoever holds the token
resolve_outcome_unchecked(receiver_id, token_id, promise_result) ==
    IF ~must_revert(promise_result) THEN [resp |-> TRUE, rollback |-> FALSE]
    ELSE [resp |-> FALSE, rollback |-> TRUE]

\* NonFungibleToken::nft_resolve_transfer: what it returns, and whether it rolls
\* back: only when the token is still the receiver's
resolve_outcome(receiver_id, token_id, promise_result) ==
    IF ~must_revert(promise_result) THEN [resp |-> TRUE, rollback |-> FALSE]
    ELSE IF token_id \in DOMAIN owner_by_id
    THEN IF owner_by_id[token_id] # receiver_id
         THEN [resp |-> TRUE, rollback |-> FALSE]
         ELSE [resp |-> FALSE, rollback |-> TRUE]
    ELSE [resp |-> TRUE, rollback |-> FALSE]

\* a #[private] that was left out
private_ok_anyone(caller) == TRUE

\* #[private]: only the contract itself may call
private_ok(caller) == caller = Self

\* the reversing record logged whatever the library answered
resolve_events_always(resp, previous_owner_id, receiver_id, token_id) ==
    << [ type |-> "nft_transfer", old_owner_id |-> receiver_id,
         new_owner_id |-> previous_owner_id, token_id |-> token_id,
         authorized_id |-> None ] >>

\* lib.rs:1182-1191: the reversing transfer record, logged when the library
\* answered false
resolve_events(resp, previous_owner_id, receiver_id, token_id) ==
    IF ~resp
    THEN << [ type |-> "nft_transfer", old_owner_id |-> receiver_id,
              new_owner_id |-> previous_owner_id, token_id |-> token_id,
              authorized_id |-> None ] >>
    ELSE <<>>

ResolvePanic(caller, msg) ==
    /\ last' = [op |-> "nft_resolve_transfer", err |-> msg, ret |-> <<>>, caller |-> caller]
    /\ events' = <<>>
    /\ payments' = <<>>
    /\ UNCHANGED <<contract, now>>

\* the panic nft_resolve_transfer ends in, "" when it returns
resolve_error(caller, receiver_id, token_id, promise_result) ==
    IF ~private_ok(caller) THEN "Method nft_resolve_transfer is private"
    ELSE IF promise_result = "none" THEN "promise result not ready"
    ELSE IF /\ resolve_outcome(receiver_id, token_id, promise_result).rollback
            /\ receiver_id \notin DOMAIN tokens_per_owner
    THEN "Unable to access tokens per owner in unguarded call."
    ELSE ""

\* nft_resolve_transfer (lib.rs:1165-1195) without its bookkeeping of calls;
\* promise_result is "none" when the call is no callback of a promise
nft_resolve_transfer(caller, previous_owner_id, receiver_id, token_id, approved_account_ids, promise_result) ==
    LET o == resolve_outcome(receiver_id, token_id, promise_result)
        err == resolve_error(caller, receiver_id, token_id, promise_result)
    IN
    IF err # "" THEN ResolvePanic(caller, err)
    ELSE
        /\ owner_by_id' = IF o.rollback THEN MapPut(owner_by_id, token_id, previous_owner_id)
                          ELSE owner_by_id
        /\ tokens_per_owner' =
               IF o.rollback
               THEN internal_transfer_unguarded(token_id, receiver_id, previous_owner_id)
               ELSE tokens_per_owner
        /\ approvals_by_id' = IF o.rollback
                              THEN restore_approvals(token_id, approved_account_ids)
                              ELSE approvals_by_id
        /\ events' = resolve_events(o.resp, previous_owner_id, receiver_id, token_id)
        /\ payments' = <<>>
        /\ last' = [op |-> "nft_resolve_transfer", err |-> "", ret |-> o.resp,
                    caller |-> caller]
        /\ UNCHANGED <<series, token_metadata_by_id, next_approval_id_by_id, fees, now>>

\* the callback the promise chain of call i runs once the hook has returned
ResolveCallback(i) ==
    /\ i \in DOMAIN calls
    /\ calls[i].stage = "returned"
    /\ LET c == calls[i]
           err == resolve_error(Self, c.receiver_id, c.token_id, c.result)
           rolled == err = "" /\ resolve_outcome(c.receiver_id, c.token_id, c.result).rollback
           others == IF rolled THEN MarkMoved(calls, c.token_id) ELSE calls
       IN
       /\ calls' = [others EXCEPT ![i] =
                  [c EXCEPT !.stage = IF err # "" THEN "failed"
                                      ELSE IF rolled THEN "rolledback" ELSE "finalized",
                            !.resolved = c.resolved + 1,
                            \* the chain is over: its arguments and its history go
                            !.approved_account_ids = None,
                            !.prior_approvals = EmptyMap,
                            !.prior_next_id = 1]]
       /\ nft_resolve_transfer(Self, c.previous_owner_id, c.receiver_id, c.token_id,
                               c.approved_account_ids, c.result)

\* nft_resolve_transfer called as a method: by an account's transaction (no promise
\* result), or as the callback of a promise some other contract made
ResolveDirect(caller, previous_owner_id, receiver_id, token_id, approved_account_ids, promise_result) ==
    /\ caller = Self => promise_result = "none"
    /\ nft_resolve_transfer(caller, previous_owner_id, receiver_id, token_id,
                            approved_account_ids, promise_result)
    /\ calls' = calls

---------------------------------------------------------------------------
(* Approval management (impl_non_fungible_token_approval!, lib.rs:1156).   *)

nft_approve(caller, token_id, account_id, attached) ==
    LET op == "nft_approve" IN
    IF ~(attached >= 1) THEN Panic(op, "Requires attached deposit of at least 1 yoctoNEAR")
    ELSE IF token_id \notin DOMAIN owner_by_id THEN Panic(op, "Token not found")
    ELSE IF caller # owner_by_id[token_id] THEN Panic(op, "Predecessor must be token owner.")
    ELSE
    LET approved_account_ids == IF token_id \in DOMAIN approvals_by_id
                                THEN approvals_by_id[token_id] ELSE EmptyMap
        approval_id == IF token_id \in DOMAIN next_approval_id_by_id
                       THEN next_approval_id_by_id[token_id] ELSE 1
    IN
        /\ approval_id <= MaxApprovals
        /\ approvals_by_id' = MapPut(approvals_by_id, token_id,
                                     MapPut(approved_account_ids, account_id, approval_id))
        /\ next_approval_id_by_id' = MapPut(next_approval_id_by_id, token_id,
                                            next_approval_id_after(approval_id))
        /\ events' = <<>>
        /\ payments' = <<>>
        /\ last' = Ok(op, approval_id)
        /\ UNCHANGED <<series, owner_by_id, token_metadata_by_id, tokens_per_owner,
                       fees, now, calls>>

nft_revoke(caller, token_id, account_id, attached) ==
    LET op == "nft_revoke" IN
    IF attached # 1 THEN Panic(op, "Requires attached deposit of exactly 1 yoctoNEAR")
    ELSE IF token_id \notin DOMAIN owner_by_id THEN Panic(op, "Token not found")
    ELSE IF caller # owner_by_id[token_id] THEN Panic(op, "Predecessor must be token owner.")
    ELSE
        /\ approvals_by_id' =
               IF token_id \in DOMAIN approvals_by_id
                  /\ account_id \in DOMAIN approvals_by_id[token_id]
               THEN LET rest == MapDel(approvals_by_id[token_id], account_id) IN
                    IF DOMAIN rest = {} THEN MapDel(approvals_by_id, token_id)
                    ELSE MapPut(approvals_by_id, token_id, rest)
               ELSE approvals_by_id
        /\ events' = <<>>
        /\ payments' = <<>>
        /\ last' = Ok(op, <<>>)
        /\ UNCHANGED <<series, owner_by_id, token_metadata_by_id, tokens_per_owner,
                       next_approval_id_by_id, fees, now, calls>>

nft_revoke_all(caller, token_id, attached) ==
    LET op == "nft_revoke_all" IN
    IF attached # 1 THEN Panic(op, "Requires attached deposit of exactly 1 yoctoNEAR")
    ELSE IF token_id \notin DOMAIN owner_by_id THEN Panic(op, "Token not found")
    ELSE IF caller # owner_by_id[token_id] THEN Panic(op, "Predecessor must be token owner.")
    ELSE
        /\ approvals_by_id' = MapDel(approvals_by_id, token_id)
        /\ events' = <<>>
        /\ payments' = <<>>
        /\ last' = Ok(op, <<>>)
        /\ UNCHANGED <<series, owner_by_id, token_metadata_by_id, tokens_per_owner,
                       next_approval_id_by_id, fees, now, calls>>

---------------------------------------------------------------------------
(* Burn and the edition view (lib.rs:725-762, 844-874).                    *)

\* a burn that leaves the owner's set as it was
tokens_after_burn_kept(token_ids, token_id) == token_ids

\* lib.rs:746-747: token_ids.remove(&token_id) on the owner's set
tokens_after_burn(token_ids, token_id) == token_ids \ {token_id}

nft_burn(caller, token_id, attached) ==
    LET op == "nft_burn" IN
    IF attached # 1 THEN Panic(op, "Requires attached deposit of exactly 1 yoctoNEAR")
    ELSE IF token_id \notin DOMAIN owner_by_id
    THEN Panic(op, "called Option::unwrap() on a None value")
    ELSE
    LET owner_id == owner_by_id[token_id] IN
    IF owner_id # caller THEN Panic(op, "Token owner only")
    ELSE
        /\ next_approval_id_by_id' = MapDel(next_approval_id_by_id, token_id)
        /\ approvals_by_id' = MapDel(approvals_by_id, token_id)
        /\ tokens_per_owner' = MapPut(tokens_per_owner, owner_id,
                                      tokens_after_burn(tokens_per_owner[owner_id], token_id))
        /\ token_metadata_by_id' = MapDel(token_metadata_by_id, token_id)
        /\ owner_by_id' = MapDel(owner_by_id, token_id)
        /\ events' = << [type |-> "nft_burn", owner_id |-> owner_id, token_id |-> token_id] >>
        /\ payments' = <<>>
        /\ last' = Ok(op, <<>>)
        /\ UNCHANGED <<series, fees, now, calls>>

\* lib.rs:550-563, 857: the TokenMetadata stored for an edition at its mint,
\* with no title and no copies of its own
stored_token_metadata(token_id) == [title |-> None, copies |-> None, issued_at |-> token_metadata_by_id[token_id]]

\* a read that hands out the stored metadata as it is
token_metadata_uncomposed(token_metadata, series_metadata) == token_metadata

\* lib.rs:859-866: the series' fields written over the stored ones
token_metadata_composed(token_metadata, series_metadata) == [token_metadata EXCEPT !.title = series_metadata.title, !.copies = series_metadata.copies]

\* the view nft_token (lib.rs:844-874)
nft_token(token_id) ==
    IF token_id \notin DOMAIN owner_by_id THEN None
    ELSE
    LET series_metadata == series[SeriesOf(token_id)].metadata
        token_metadata == stored_token_metadata(token_id)
    IN
    Some([ token_id |-> token_id,
           owner_id |-> owner_by_id[token_id],
           metadata |-> token_metadata_composed(token_metadata, series_metadata),
           approved_account_ids |-> IF token_id \in DOMAIN approvals_by_id
                                    THEN approvals_by_id[token_id] ELSE EmptyMap ])

\* the view nft_get_series_single (lib.rs:766-776); None stands for its panic
\* "Series does not exist"
nft_get_series_single(token_series_id) ==
    IF ~IsSome(SeriesGet(token_series_id)) THEN None
    ELSE LET token_series == Unwrap(SeriesGet(token_series_id))
         IN  Some([ token_series_id |-> token_series_id,
                    metadata |-> token_series.metadata,
                    creator_id |-> token_series.creator_id,
                    royalty |-> token_series.royalty,
                    transaction_fee |-> Some(get_market_data_transaction_fee(token_series_id)) ])

---------------------------------------------------------------------------
(* Royalty payout (lib.rs:1052-1152).                                      *)

royalty_to_payout(a, b) == (a * b) \div BASIS

\* the share of the owner: the basis points the other parties left
owner_payout(total_perpetual, balance) == royalty_to_payout(BASIS - total_perpetual, balance)

\* a payout that also takes the owner's own royalty entry off the owner's share
payout_map_own_entry_deducted(royalty, owner_id, balance) == [k \in (DOMAIN royalty) \cup {owner_id} |-> IF k = owner_id THEN owner_payout(SumValues(royalty, DOMAIN royalty), balance) ELSE royalty_to_payout(royalty[k], balance)]

\* the map both payout methods build from a royalty table
payout_map(royalty, owner_id, balance) ==
    LET parties == (DOMAIN royalty) \ {owner_id}
        total_perpetual == SumValues(royalty, parties)
    IN  [k \in parties \cup {owner_id} |->
            IF k = owner_id THEN owner_payout(total_perpetual, balance)
            ELSE royalty_to_payout(royalty[k], balance)]

\* the view nft_payout: the panic message ("" when it returns) and the payout
nft_payout(token_id, balance, max_len_payout) ==
    IF token_id \notin DOMAIN owner_by_id THEN [err |-> "No token id"]
    ELSE
    LET owner_id == owner_by_id[token_id]
        got == SeriesGet(SeriesOf(token_id))
    IN
    IF ~IsSome(got) THEN [err |-> "no type"]
    ELSE
    LET royalty == Unwrap(got).royalty IN
    IF ~(Cardinality(DOMAIN royalty) <= max_len_payout)
    THEN [err |-> "Market cannot payout to that many receivers"]
    ELSE IF SumValues(royalty, (DOMAIN royalty) \ {owner_id}) > BASIS
    THEN [err |-> "attempt to subtract with overflow"]
    ELSE [err |-> "", payout |-> payout_map(royalty, owner_id, balance)]

\* a caller reads nft_payout
NftPayoutView(token_id, balance, max_len_payout) ==
    LET r == nft_payout(token_id, balance, max_len_payout) IN
    /\ last' = IF r.err # "" THEN Err("nft_payout", r.err)
               ELSE Ok("nft_payout", [payout |-> r.payout, balance |-> balance,
                                      max_len_payout |-> max_len_payout,
                                      token_id |-> token_id])
    /\ events' = <<>>
    /\ payments' = <<>>
    /\ UNCHANGED <<contract, now, calls>>

\* a split computed against the owner after the transfer
payout_owner_after_transfer(previous_token, receiver_id) == receiver_id

\* lib.rs:1093, 1097: the owner the split is computed against, read from the
\* token as it was before the transfer
payout_owner(previous_token, receiver_id) == previous_token.owner_id

nft_transfer_payout(caller, receiver_id, token_id, approval_id, balance, max_len_payout, attached) ==
    LET op == "nft_transfer_payout"
        previous_token == nft_token(token_id)
        t == internal_transfer(caller, receiver_id, token_id, approval_id)
    IN
    IF attached # 1 THEN Panic(op, "Requires attached deposit of exactly 1 yoctoNEAR")
    ELSE IF ~IsSome(previous_token) THEN Panic(op, "no token")
    ELSE IF t.err # "" THEN Panic(op, t.err)
    ELSE
    LET previous_owner_id == payout_owner(Unwrap(previous_token), receiver_id)
        got == SeriesGet(SeriesOf(token_id))
        royalty == Unwrap(got).royalty
        total_perpetual == SumValues(royalty, (DOMAIN royalty) \ {previous_owner_id})
    IN
    IF IsSome(balance) /\ ~IsSome(got) THEN Panic(op, "no type")
    ELSE IF IsSome(balance) /\ ~IsSome(max_len_payout)
    THEN Panic(op, "called Option::unwrap() on a None value")
    ELSE IF IsSome(balance) /\ ~(Cardinality(DOMAIN royalty) <= Unwrap(max_len_payout))
    THEN Panic(op, "Market cannot payout to that many receivers")
    ELSE IF IsSome(balance) /\ ~(total_perpetual <= BASIS)
    THEN Panic(op, "Total payout overflow")
    ELSE
        /\ ApplyTransfer(op, t, receiver_id, token_id, caller,
               IF IsSome(balance)
               THEN Some([payout |-> payout_map(royalty, previous_owner_id, Unwrap(balance)),
                          balance |-> Unwrap(balance),
                          max_len_payout |-> Unwrap(max_len_payout),
                          previous_owner_id |-> previous_owner_id])
               ELSE None)
        /\ calls' = MarkMoved(calls, token_id)

---------------------------------------------------------------------------
(* The contract as a state machine: any account calls any method with any  *)
(* argument, block time moves on, hooks return and callbacks run.          *)

BalanceInputs == {None, Some(MaxBalance)}
MaxLenInputs == {None, Some(0), Some(10)}
ApprovedMapInputs == {None, Some([k \in {"carol"} |-> 1])}

Next ==
    \/ \E caller \in {OwnerId, "bob"}, attached \in OneYocto, next_fee \in NextFeeInputs,
          start_time \in StartTimeInputs :
          set_transaction_fee(caller, attached, next_fee, start_time)
    \/ Tick
    \/ \E caller \in Accounts, creator_id \in {None, Some("alice")}, title \in TitleInputs,
          copies \in CopiesInputs, price \in PriceInputs, royalty \in RoyaltyInputs,
          attached \in OneYocto :
          /\ Len(series) < MaxSeries
          /\ nft_create_series(caller, creator_id, title, copies, price, royalty, attached)
    \/ \E caller \in Accounts, id \in SeriesIds, receiver_id \in Accounts,
          attached \in Deposits :
          nft_buy(caller, id, receiver_id, attached)
    \/ \E caller \in Accounts, id \in SeriesIds, receiver_id \in Accounts,
          attached \in OneYocto :
          nft_mint(caller, id, receiver_id, attached)
    \/ \E caller \in Accounts, id \in SeriesIds, account_id \in Accounts,
          msg \in {None, Some("msg")}, attached \in OneYocto :
          nft_mint_and_approve(caller, id, account_id, msg, attached)
    \/ \E caller \in Accounts, id \in SeriesIds, attached \in OneYocto :
          nft_set_series_non_mintable(caller, id, attached)
    \/ \E caller \in Accounts, id \in SeriesIds, decrease_copies \in 0..MaxDecrease,
          attached \in OneYocto, overflow_checks \in BOOLEAN :
          nft_decrease_series_copies(caller, id, decrease_copies, attached, overflow_checks)
    \/ \E caller \in Accounts, id \in SeriesIds, price \in PriceInputs,
          attached \in OneYocto :
          nft_set_series_price(caller, id, price, attached)
    \/ \E caller \in Accounts, token_id \in TokenInputs, attached \in OneYocto :
          nft_burn(caller, token_id, attached)
    \/ \E caller \in Accounts, receiver_id \in Accounts, token_id \in TokenInputs,
          approval_id \in ApprovalIdInputs, attached \in OneYocto :
          nft_transfer_unsafe(caller, receiver_id, token_id, approval_id, attached)
    \/ \E caller \in Accounts, receiver_id \in Accounts, token_id \in TokenInputs,
          approval_id \in ApprovalIdInputs, attached \in OneYocto :
          nft_transfer(caller, receiver_id, token_id, approval_id, attached)
    \/ \E caller \in Accounts, receiver_id \in Accounts, token_id \in TokenInputs,
          approval_id \in ApprovalIdInputs, attached \in OneYocto :
          nft_transfer_call(caller, receiver_id, token_id, approval_id, attached)
    \/ \E i \in 1..MaxCalls, result \in HookResults : nft_on_transfer(i, result)
    \/ \E i \in 1..MaxCalls : ResolveCallback(i)
    \/ \E caller \in Callers, previous_owner_id \in Accounts, receiver_id \in Accounts,
          token_id \in TokenInputs, approved_account_ids \in ApprovedMapInputs,
          promise_result \in HookResults \cup {"none"} :
          ResolveDirect(caller, previous_owner_id, receiver_id, token_id,
                        approved_account_ids, promise_result)
    \/ \E caller \in Accounts, token_id \in TokenInputs, account_id \in Accounts,
          attached \in OneYocto :
          nft_approve(caller, token_id, account_id, attached)
    \/ \E caller \in Accounts, token_id \in TokenInputs, account_id \in Accounts,
          attached \in OneYocto :
          nft_revoke(caller, token_id, account_id, attached)
    \/ \E caller \in Accounts, token_id \in TokenInputs, attached \in OneYocto :
          nft_revoke_all(caller, token_id, attached)
    \/ \E caller \in Accounts, receiver_id \in Accounts, token_id \in TokenInputs,
          approval_id \in ApprovalIdInputs, balance \in BalanceInputs,
          max_len_payout \in MaxLenInputs, attached \in OneYocto :
          nft_transfer_payout(caller, receiver_id, token_id, approval_id, balance,
                              max_len_payout, attached)

Spec == Init /\ [][Next]_vars

---------------------------------------------------------------------------
(* The series registry and the minting engine, with the ownership ledger   *)
(* behind them: every method that writes a series record, the mints, plain *)
(* transfers and burns.                                                    *)

SeriesCallers == {"alice", "bob"}

NextSeries ==
    \/ \E creator_id \in {None, Some("alice"), Some("bob")}, title \in TitleInputs,
          copies \in CopiesInputs, price \in PriceInputs,
          royalty \in {None, Some([k \in {"bob", "carol"} |-> 3000])},
          attached \in OneYocto :
          /\ Len(series) < MaxSeries
          /\ nft_create_series("alice", creator_id, title, copies, price, royalty, attached)
    \/ \E caller \in SeriesCallers, id \in SeriesIds, receiver_id \in SeriesCallers,
          attached \in Deposits :
          nft_buy(caller, id, receiver_id, attached)
    \/ \E caller \in SeriesCallers, id \in SeriesIds, receiver_id \in SeriesCallers,
          attached \in OneYocto :
          nft_mint(caller, id, receiver_id, attached)
    \/ \E caller \in SeriesCallers, id \in SeriesIds, msg \in {None, Some("msg")},
          attached \in OneYocto :
          nft_mint_and_approve(caller, id, "bob", msg, attached)
    \/ \E caller \in SeriesCallers, id \in SeriesIds, attached \in OneYocto :
          nft_set_series_non_mintable(caller, id, attached)
    \/ \E caller \in SeriesCallers, id \in SeriesIds, decrease_copies \in 0..MaxDecrease,
          attached \in OneYocto, overflow_checks \in BOOLEAN :
          nft_decrease_series_copies(caller, id, decrease_copies, attached, overflow_checks)
    \/ \E caller \in SeriesCallers, id \in SeriesIds, price \in PriceInputs,
          attached \in OneYocto :
          nft_set_series_price(caller, id, price, attached)
    \/ \E caller \in SeriesCallers, token_id \in TokenInputs :
          nft_burn(caller, token_id, 1)
    \/ \E caller \in SeriesCallers, receiver_id \in SeriesCallers, token_id \in TokenInputs,
          approval_id \in {None, Some(1)} :
          nft_transfer(caller, receiver_id, token_id, approval_id, 1)

SpecSeries == Init /\ [][NextSeries]_vars

---------------------------------------------------------------------------
(* The transfer protocol: one uncapped series of alice's, its editions,    *)
(* approvals, the three transfer methods, the payout transfer, burns, and  *)
(* the promise chains of nft_transfer_call with their hooks and callbacks. *)

\* editions the transfer protocol is exercised on
MaxEditions == 1

EditionBound == Len(series) = 1 /\ Len(series[1].tokens) < MaxEditions
EditionInputs == {TokenIdOf(1, n) : n \in 1..MaxEditions}

NextTransfer ==
    \/ /\ Len(series) < 1
       /\ nft_create_series("alice", None, Some("title"), None, None,
                            Some([k \in {"carol"} |-> 1000]), 1)
    \/ /\ EditionBound
       /\ nft_mint("alice", 1, "alice", 1)
    \/ /\ EditionBound
       /\ nft_mint_and_approve("alice", 1, "bob", None, 1)
    \/ \E caller \in Accounts, token_id \in EditionInputs, account_id \in {"bob", "carol"} :
          nft_approve(caller, token_id, account_id, 1)
    \/ \E caller \in Accounts, token_id \in EditionInputs, account_id \in {"bob", "carol"} :
          nft_revoke(caller, token_id, account_id, 1)
    \/ \E caller \in Accounts, token_id \in EditionInputs :
          nft_revoke_all(caller, token_id, 1)
    \/ \E caller \in Accounts, token_id \in EditionInputs :
          nft_burn(caller, token_id, 1)
    \/ \E caller \in Accounts, receiver_id \in Accounts, token_id \in EditionInputs,
          approval_id \in ApprovalIdInputs :
          nft_transfer_unsafe(caller, receiver_id, token_id, approval_id, 0)
    \/ \E caller \in Accounts, receiver_id \in Accounts, token_id \in EditionInputs,
          approval_id \in ApprovalIdInputs :
          nft_transfer(caller, receiver_id, token_id, approval_id, 1)
    \/ \E caller \in Accounts, receiver_id \in Accounts, token_id \in EditionInputs,
          approval_id \in ApprovalIdInputs, attached \in OneYocto :
          nft_transfer_call(caller, receiver_id, token_id, approval_id, attached)
    \/ \E i \in 1..MaxCalls, result \in {"keep", "return", "failed"} :
          nft_on_transfer(i, result)
    \/ \E i \in 1..MaxCalls : ResolveCallback(i)
    \/ \E caller \in {Self, "bob"}, receiver_id \in Accounts, token_id \in EditionInputs,
          promise_result \in {"none", "return"} :
          ResolveDirect(caller, "bob", receiver_id, token_id, None, promise_result)

SpecTransfer == Init /\ [][NextTransfer]_vars

\* fairness: the runtime executes the callback receipt of every promise chain
\* whose hook has returned
stages == [i \in DOMAIN calls |-> calls[i].stage]

SpecTransferLive ==
    SpecTransfer /\ \A i \in 1..MaxCalls : WF_stages(ResolveCallback(i))

---------------------------------------------------------------------------
(* Payouts: series with royalty tables that pass nft_create_series, their  *)
(* editions with any owner, and the two methods that compute a payout.     *)

\* royalty tables within the limits of nft_create_series (lib.rs:333-353)
PayoutRoyalties ==
    { None,
      Some([k \in {"bob"} |-> 1]),
      Some([k \in {"bob"} |-> 1000]),
      Some([k \in {"bob", "carol"} |-> 2500]),
      Some([k \in {"alice", "bob", "carol"} |-> 1666]) }

PayoutBalances == 1..MaxBalance

NextPayout ==
    \/ \E royalty \in PayoutRoyalties :
          /\ Len(series) < MaxSeries
          /\ nft_create_series("alice", None, Some("title"), None, None, royalty, 1)
    \/ \E id \in SeriesIds, receiver_id \in Accounts :
          /\ MintBound(id)
          /\ nft_mint("alice", id, receiver_id, 1)
    \/ \E token_id \in TokenInputs, balance \in PayoutBalances, max_len_payout \in {1, 10} :
          NftPayoutView(token_id, balance, max_len_payout)
    \/ \E caller \in Accounts, receiver_id \in Accounts, token_id \in TokenInputs,
          balance \in {None, Some(1), Some(MaxBalance)},
          max_len_payout \in {None, Some(10)} :
          nft_transfer_payout(caller, receiver_id, token_id, None, balance,
                              max_len_payout, 1)

SpecPayout == Init /\ [][NextPayout]_vars

---------------------------------------------------------------------------
(* The fee schedule: the owner stages and changes the fee, block time      *)
(* passes, anyone calls the two fee methods, and alice's series take their *)
(* snapshots while editions of the first one are sold, moved and burned.   *)

\* series created in one run of the fee schedule
MaxRegistry == 2

FeeSeriesIds == 1..MaxRegistry
FeePriceInputs == {None, Some(10000)}
FirstEditionOpen == Len(series) >= 1 /\ Len(series[1].tokens) < MaxEditions

NextFee ==
    \/ \E caller \in {OwnerId, "bob"}, next_fee \in NextFeeInputs,
          start_time \in StartTimeInputs :
          set_transaction_fee(caller, 1, next_fee, start_time)
    \/ Tick
    \/ CalculateCurrentTransactionFee
    \/ \E id \in FeeSeriesIds : CalculateMarketDataTransactionFee(id)
    \/ /\ Len(series) < MaxRegistry
       /\ nft_create_series("alice", None, Some("title"), None, Some(10000), None, 1)
    \/ \E id \in FeeSeriesIds, price \in FeePriceInputs :
          nft_set_series_price("alice", id, price, 1)
    \/ /\ FirstEditionOpen
       /\ nft_buy("bob", 1, "bob", 10000 + STORAGE_COST)
    \/ /\ FirstEditionOpen
       /\ nft_mint("alice", 1, "bob", 1)
    \/ nft_transfer("bob", "carol", TokenIdOf(1, 1), None, 1)
    \/ nft_burn("carol", TokenIdOf(1, 1), 1)

SpecFee == Init /\ [][NextFee]_vars

---------------------------------------------------------------------------
(* The registry: alice and bob create series with any title, creator,      *)
(* price, deposit and royalty table, and the creators work on them.        *)

\* royalty tables a creator may hand to nft_create_series: none, within both
\* limits, on the limits, one past each limit, an invalid account, and
\* values whose u32 sum wraps
RegistryRoyalties ==
    { None,
      Some([k \in {"bob"} |-> 1000]),
      Some([k \in {"bob", "carol"} |-> 2500]),
      Some([k \in {"bob", "carol"} |-> IF k = "bob" THEN 2501 ELSE 2500]),
      Some([k \in RoyaltyParties \ {"niaj"} |-> 500]),
      Some([k \in RoyaltyParties |-> 1]),
      Some([k \in {"Bad Account"} |-> 10]),
      Some([k \in {"bob", "carol"} |-> IF k = "bob" THEN U32_MAX ELSE 2]) }

NextRegistry ==
    \/ \E caller \in SeriesCallers, creator_id \in {None, Some("alice")},
          title \in TitleInputs, price \in {None, Some(MAX_PRICE)},
          royalty \in RegistryRoyalties, attached \in OneYocto :
          /\ Len(series) < MaxRegistry
          /\ nft_create_series(caller, creator_id, title, None, price, royalty, attached)
    \/ \E caller \in SeriesCallers, id \in FeeSeriesIds, price \in FeePriceInputs :
          nft_set_series_price(caller, id, price, 1)
    \/ \E caller \in SeriesCallers, id \in FeeSeriesIds :
          nft_set_series_non_mintable(caller, id, 1)
    \/ \E id \in FeeSeriesIds :
          /\ id \in 1..Len(series) => Len(series[id].tokens) < MaxEditions
          /\ nft_mint("alice", id, "alice", 1)

SpecRegistry == Init /\ [][NextRegistry]_vars

---------------------------------------------------------------------------
(* Properties of the series registry.                                      *)

Capped(s) == IsSome(series[s].metadata.copies)
Issued(s) == Len(series[s].tokens)
Cap(s) == Unwrap(series[s].metadata.copies)

\* C1: in every reachable state a series with a finite max_copies cap has
\* issued at most max_copies editions.
C1_IssuedWithinCap ==
    \A s \in 1..Len(series) : Capped(s) => Issued(s) <= Cap(s)

\* a capped series whose cap was just decreased onto its issued count
C1_Witness ==
    /\ last.op = "nft_decrease_series_copies"
    /\ last.err = ""
    /\ \E s \in 1..Len(series) : Capped(s) /\ Issued(s) >= 1 /\ Issued(s) = Cap(s)

\* C2: whenever the issued count of a capped series equals max_copies the
\* series is not mintable.
C2_ExhaustedNotMintable ==
    \A s \in 1..Len(series) :
        (Capped(s) /\ Issued(s) = Cap(s)) => ~series[s].is_mintable

---------------------------------------------------------------------------
(* Properties of the payout computation.                                   *)

\* the payout the last call returned, if it returned one
LastPayout ==
    IF last.op = "nft_payout" /\ last.err = "" THEN Some(last.ret)
    ELSE IF last.op = "nft_transfer_payout" /\ last.err = "" THEN last.ret
    ELSE None

\* C3: the amounts of the payout map that nft_payout, or nft_transfer_payout
\* with a balance, returns sum exactly to the balance asked for.
C3_PayoutSumsToBalance ==
    IsSome(LastPayout) =>
        LET p == Unwrap(LastPayout)
        IN  SumValues(p.payout, DOMAIN p.payout) = p.balance

---------------------------------------------------------------------------
(* Properties of the transfer protocol.                                    *)

TableOf(approvals, token_id) ==
    IF token_id \in DOMAIN approvals THEN approvals[token_id] ELSE EmptyMap

HeldBy(owners, token_id, account_id) ==
    token_id \in DOMAIN owners /\ owners[token_id] = account_id

\* this step is the callback of promise chain i
ResolveStep(i) ==
    /\ i \in DOMAIN calls
    /\ calls[i].stage = "returned"
    /\ calls'[i].stage # "returned"

\* C4: when the hook rejects and the token was not transferred since phase 1
\* and is the receiver's, the resolve puts the previous owner back and leaves
\* the token with exactly the approvals it had before phase 1.
C4_RejectRestoresOwnerAndApprovals ==
    [][\A i \in 1..MaxCalls :
          ( /\ ResolveStep(i)
            /\ calls[i].result = "return"
            /\ ~calls[i].moved
            /\ HeldBy(owner_by_id, calls[i].token_id, calls[i].receiver_id) )
          => /\ HeldBy(owner_by_id', calls[i].token_id, calls[i].previous_owner_id)
             /\ TableOf(approvals_by_id', calls[i].token_id) = calls[i].prior_approvals
      ]_vars

\* C5: a resolve after a reject or a failed hook, finding the token with
\* someone other than the receiver of phase 1, changes nothing of the contract,
\* reports no error and logs no transfer record.
C5_ThirdPartyOwnerUntouched ==
    [][\A i \in 1..MaxCalls :
          ( /\ ResolveStep(i)
            /\ must_revert(calls[i].result)
            /\ ~HeldBy(owner_by_id, calls[i].token_id, calls[i].receiver_id) )
          => /\ contract' = contract
             /\ last'.op = "nft_resolve_transfer"
             /\ last'.err = ""
             /\ events' = <<>>
      ]_vars

\* a callback has just finished a rejected chain whose token a third account holds
C5_Witness ==
    /\ last.op = "nft_resolve_transfer"
    /\ last.caller = Self
    /\ last.err = ""
    /\ \E i \in DOMAIN calls :
          /\ calls[i].stage = "finalized"
          /\ must_revert(calls[i].result)
          /\ calls[i].token_id \in DOMAIN owner_by_id
          /\ owner_by_id[calls[i].token_id]
                 \notin {calls[i].receiver_id, calls[i].previous_owner_id}

\* C6 as stated: whenever a resolve rolls back, the token was not transferred
\* between phase 1 and that resolve.
C6_RollbackOnlyWithoutTransfer ==
    [][\A i \in 1..MaxCalls :
          (ResolveStep(i) /\ calls'[i].stage = "rolledback") => ~calls[i].moved
      ]_vars

\* C6: whenever a resolve rolls back, the token is the phase-1 receiver's at
\* that moment, and it is the previous owner's afterwards: no one else's
\* ownership is undone.
C6_RollbackOnlyFromReceiver ==
    [][\A i \in 1..MaxCalls :
          (ResolveStep(i) /\ calls'[i].stage = "rolledback")
          => /\ HeldBy(owner_by_id, calls[i].token_id, calls[i].receiver_id)
             /\ HeldBy(owner_by_id', calls[i].token_id, calls[i].previous_owner_id)
      ]_vars

\* a rollback has just taken back a token that left the receiver and came back
C6_Witness ==
    /\ last.op = "nft_resolve_transfer"
    /\ last.err = ""
    /\ last.ret = FALSE
    /\ \E i \in DOMAIN calls : calls[i].stage = "rolledback" /\ calls[i].moved

\* C7: nft_resolve_transfer called by any account other than the contract
\* fails and leaves the contract's state, and the pending chains, as they were.
C7_ResolveIsPrivate ==
    [][(last'.op = "nft_resolve_transfer" /\ last'.caller # Self)
          => /\ last'.err # ""
             /\ contract' = contract
             /\ calls' = calls
      ]_vars

\* bob has just called nft_resolve_transfer himself while he holds a token
\* that a pending chain handed him
C7_Witness ==
    /\ last.op = "nft_resolve_transfer"
    /\ last.caller = "bob"
    /\ last.err = "Method nft_resolve_transfer is private"
    /\ \E i \in DOMAIN calls :
          /\ Pending(calls[i])
          /\ HeldBy(owner_by_id, calls[i].token_id, calls[i].receiver_id)

\* a chain's callback has not run while the hook is out, has run once when
\* the chain is over, and the chain is over as finalized or as rolled back
ResolvedOnce(c) ==
    /\ c.stage \in {"hook", "returned", "finalized", "rolledback"}
    /\ c.stage = "hook" => (c.resolved = 0 /\ c.result = "none")
    /\ c.stage = "returned" => (c.resolved = 0 /\ c.result # "none")
    /\ c.stage \in {"finalized", "rolledback"} => (c.resolved = 1 /\ c.result # "none")

\* C8: the callback of a promise chain runs exactly once: not before the hook
\* has returned, never twice, and once the hook has returned (with an answer
\* or failed) it does run, ending the chain as finalized or as rolled back.
C8_ResolveExactlyOnce ==
    /\ [](\A i \in DOMAIN calls : ResolvedOnce(calls[i]))
    /\ \A i \in 1..MaxCalls :
          (i \in DOMAIN calls /\ calls[i].stage = "returned")
              ~> (i \in DOMAIN calls /\ calls[i].stage \in {"finalized", "rolledback"})

\* a chain whose hook failed is over, rolled back by its one callback
C8_Witness ==
    \E i \in DOMAIN calls :
        /\ calls[i].stage = "rolledback"
        /\ calls[i].result = "failed"
        /\ calls[i].resolved = 1

\* C9 as stated: while a chain is pending and no other transfer of the token
\* happened, nft_token shows the receiver as owner and no approvals.
C9_PendingReadsReceiverNoApprovals ==
    \A i \in DOMAIN calls :
        (Pending(calls[i]) /\ ~calls[i].moved)
        => LET t == nft_token(calls[i].token_id)
           IN  /\ IsSome(t)
               /\ Unwrap(t).owner_id = calls[i].receiver_id
               /\ Unwrap(t).approved_account_ids = EmptyMap

\* C9: while a chain is pending and the token was neither transferred again
\* nor burned, nft_token shows the receiver as owner, who is not the previous
\* owner, and only approvals granted since phase 1; so the hook never runs
\* with the previous owner still recorded.
C9_PendingReadsReceiver ==
    \A i \in DOMAIN calls :
        (Pending(calls[i]) /\ ~calls[i].moved /\ calls[i].token_id \in DOMAIN owner_by_id)
        => LET t == Unwrap(nft_token(calls[i].token_id))
           IN  /\ t.owner_id = calls[i].receiver_id
               /\ t.owner_id # calls[i].previous_owner_id
               /\ \A a \in DOMAIN t.approved_account_ids :
                      t.approved_account_ids[a] >= calls[i].prior_next_id

\* a token that had an approval is read while its chain waits for the hook,
\* and the receiver has approved someone since
C9_Witness ==
    \E i \in DOMAIN calls :
        /\ calls[i].stage = "hook"
        /\ ~calls[i].moved
        /\ calls[i].prior_approvals # EmptyMap
        /\ IsSome(nft_token(calls[i].token_id))
        /\ Unwrap(nft_token(calls[i].token_id)).approved_account_ids # EmptyMap

\* C10: a failed hook is resolved as a reject is: with the token still the
\* receiver's, the resolve puts the previous owner back, leaves the token with
\* the approvals it had before phase 1, logs the reversing transfer record and
\* reports no error.
C10_FailedHookRollsBack ==
    [][\A i \in 1..MaxCalls :
          ( /\ ResolveStep(i)
            /\ calls[i].result = "failed"
            /\ HeldBy(owner_by_id, calls[i].token_id, calls[i].receiver_id) )
          => /\ last'.err = ""
             /\ HeldBy(owner_by_id', calls[i].token_id, calls[i].previous_owner_id)
             /\ TableOf(approvals_by_id', calls[i].token_id) = calls[i].prior_approvals
             /\ events' = resolve_events(FALSE, calls[i].previous_owner_id,
                                         calls[i].receiver_id, calls[i].token_id)
      ]_vars

---------------------------------------------------------------------------
(* Properties of the fee schedule.                                         *)

\* a fee is staged and its start_time has been reached at time t
StageDue(tf, t) == IsSome(tf.next_fee) /\ t >= Unwrap(tf.start_time)

\* the schedule with fee f current and nothing staged
Activated(f) == [next_fee |-> None, start_time |-> None, current_fee |-> f]

\* C11: with a fee f staged for time T, calculate_current_transaction_fee
\* called before T returns the old current_fee and leaves the schedule as it
\* is; called at or after T it returns f and leaves f current with next_fee
\* and start_time cleared.
C11_StagedFeeActivatesAtStartTime ==
    [][(last'.op = "calculate_current_transaction_fee" /\ IsSome(transaction_fee.next_fee))
          => IF now < Unwrap(transaction_fee.start_time)
             THEN /\ last'.ret = transaction_fee.current_fee
                  /\ transaction_fee' = transaction_fee
             ELSE /\ last'.ret = Unwrap(transaction_fee.next_fee)
                  /\ transaction_fee' = Activated(Unwrap(transaction_fee.next_fee))
      ]_vars

\* the fee method has just found a staged fee whose time had come and made it
\* the current one
C11_Witness ==
    /\ last.op = "calculate_current_transaction_fee"
    /\ IsSome(last.before.next_fee)
    /\ now >= Unwrap(last.before.start_time)
    /\ last.ret = Unwrap(last.before.next_fee)
    /\ last.ret # last.before.current_fee
    /\ transaction_fee = Activated(last.ret)

\* C12: a staged fee whose start_time has passed becomes the current fee at
\* the first call that computes the fee, and no call changes the schedule
\* without making it the current fee first (a change without start_time,
\* which replaces the current fee at once, apart).
C12_DueFeeActivatesOnce ==
    [][StageDue(transaction_fee, now)
          => /\ ( /\ last'.op \in {"calculate_current_transaction_fee",
                                   "nft_create_series", "nft_set_series_price"}
                  /\ last'.err = "" )
                => transaction_fee' = Activated(Unwrap(transaction_fee.next_fee))
             /\ transaction_fee' # transaction_fee
                => \/ transaction_fee'.current_fee = Unwrap(transaction_fee.next_fee)
                   \/ /\ last'.op = "set_transaction_fee"
                      /\ last'.args.start_time = None
      ]_vars

\* C13: set_transaction_fee by an account that is not the owner, with a
\* next_fee of 10000 or more, or with a start_time that is not later than the
\* block time, fails and leaves the schedule as it was.
C13_RejectedFeeChangeKeepsSchedule ==
    [][( /\ last'.op = "set_transaction_fee"
         /\ \/ last'.args.caller # OwnerId
            \/ last'.args.next_fee >= BASIS
            \/ /\ IsSome(last'.args.start_time)
               /\ Unwrap(last'.args.start_time) <= now )
          => /\ last'.err # ""
             /\ transaction_fee' = transaction_fee
      ]_vars

\* bob, who is not the owner, has just tried to change the fee over a staged one
C13_Witness ==
    /\ last.op = "set_transaction_fee"
    /\ last.args.caller = "bob"
    /\ last.args.next_fee < BASIS
    /\ last.err = "Owner only"
    /\ IsSome(transaction_fee.next_fee)

\* C14: a successful set_transaction_fee without start_time makes next_fee
\* the current fee and clears the stage; and while nothing is staged no call
\* but set_transaction_fee changes the schedule, at any time.
C14_ImmediateFeeClearsStage ==
    [][/\ ( /\ last'.op = "set_transaction_fee"
            /\ last'.err = ""
            /\ last'.args.start_time = None )
          => transaction_fee' = Activated(last'.args.next_fee)
       /\ (~IsSome(transaction_fee.next_fee) /\ last'.op # "set_transaction_fee")
          => transaction_fee' = transaction_fee
      ]_vars

\* the owner has just changed the fee at once while another fee was staged
C14_Witness ==
    /\ last.op = "set_transaction_fee"
    /\ last.err = ""
    /\ last.args.start_time = None
    /\ IsSome(last.before.next_fee)
    /\ Unwrap(last.before.next_fee) # last.args.next_fee
    /\ transaction_fee = Activated(last.args.next_fee)

\* C15: every series has a fee snapshot, which nft_get_series_single reports;
\* a snapshot is never removed and changes only in a successful
\* nft_set_series_price of its own series.
C15_SnapshotLocked ==
    /\ [](\A s \in 1..Len(series) :
             /\ s \in DOMAIN market_data_transaction_fee
             /\ Unwrap(nft_get_series_single(s)).transaction_fee
                    = Some(market_data_transaction_fee[s]))
    /\ [][\A s \in DOMAIN market_data_transaction_fee :
             /\ s \in DOMAIN market_data_transaction_fee'
             /\ market_data_transaction_fee'[s] # market_data_transaction_fee[s]
                => /\ last'.op = "nft_set_series_price"
                   /\ last'.err = ""
                   /\ events'[1].id = s
         ]_vars

\* the owner has just changed the fee at once, and a series whose edition was
\* sold keeps a snapshot that differs from the new current fee
C15_Witness ==
    /\ last.op = "set_transaction_fee"
    /\ last.err = ""
    /\ last.args.start_time = None
    /\ \E s \in 1..Len(series) :
          /\ Len(series[s].tokens) >= 1
          /\ market_data_transaction_fee[s] # transaction_fee.current_fee

\* C16: a successful nft_create_series or nft_set_series_price stores as the
\* series' snapshot the staged fee, clearing the stage, when the start_time
\* has been reached, and the unchanged current_fee, keeping the stage, when
\* it has not.
C16_SnapshotIsEffectiveFee ==
    [][(last'.op \in {"nft_create_series", "nft_set_series_price"} /\ last'.err = "")
          => IF StageDue(transaction_fee, now)
             THEN /\ market_data_transaction_fee'[events'[1].id]
                         = Unwrap(transaction_fee.next_fee)
                  /\ transaction_fee' = Activated(Unwrap(transaction_fee.next_fee))
             ELSE /\ market_data_transaction_fee'[events'[1].id]
                         = transaction_fee.current_fee
                  /\ transaction_fee' = transaction_fee
      ]_vars

\* a price change has just snapshotted a fee that was staged and changed at
\* once before, while a later fee is still waiting for its start_time
C16_Witness ==
    /\ last.op = "nft_set_series_price"
    /\ last.err = ""
    /\ IsSome(transaction_fee.next_fee)
    /\ now < Unwrap(transaction_fee.start_time)
    /\ transaction_fee.current_fee # DEFAULT_FEE
    /\ market_data_transaction_fee[events[1].id] = transaction_fee.current_fee

---------------------------------------------------------------------------
(* Properties of the registry.                                             *)

\* C17: in every reachable state the royalty table of every series has at
\* most 10 entries and values that sum to at most 5000.
C17_RoyaltyWithinLimits ==
    \A s \in 1..Len(series) :
        /\ Cardinality(DOMAIN series[s].royalty) <= 10
        /\ SumValues(series[s].royalty, DOMAIN series[s].royalty) <= 5000

\* C18: the series in the registry carry the identifiers 1..n; a successful
\* nft_create_series returns the next one, n + 1, adds that series and its
\* snapshot and leaves the series before it as they were; a failed one adds
\* nothing.
C18_SeriesIdsSequential ==
    /\ [](DOMAIN market_data_transaction_fee = 1..Len(series))
    /\ [][last'.op = "nft_create_series"
             => IF last'.err = ""
                THEN /\ Len(series') = Len(series) + 1
                     /\ last'.ret.token_series_id = Len(series) + 1
                     /\ events'[1].id = Len(series) + 1
                     /\ DOMAIN market_data_transaction_fee'
                            = DOMAIN market_data_transaction_fee \cup {Len(series) + 1}
                     /\ \A k \in 1..Len(series) : series'[k] = series[k]
                ELSE /\ series' = series
                     /\ market_data_transaction_fee' = market_data_transaction_fee
         ]_vars

\* the second series has just been created and got the identifier 2
C18_Witness ==
    /\ last.op = "nft_create_series"
    /\ last.err = ""
    /\ last.ret.token_series_id = 2
    /\ Len(series) = 2
    /\ series[1].creator_id # series[2].creator_id

---------------------------------------------------------------------------
(* Properties of minting.                                                  *)

\* the three mint entry points
MintOps == {"nft_mint", "nft_buy", "nft_mint_and_approve"}

\* a capped series that has issued max_copies editions, or an uncapped one
\* that is not mintable
Closed(s) == IF Capped(s) THEN Issued(s) = Cap(s) ELSE ~series[s].is_mintable

\* the refusals an entry point raises before it reaches _nft_mint_series
EntryRefusals == {"Token series not exist", "Token series not exist.", "Not a creator", "Not a creator.", "Not for sale.", "Attached deposit is less than price"}

\* C19: while every series is closed, a call of nft_mint, nft_buy or
\* nft_mint_and_approve fails and changes nothing of the contract's state,
\* and when the call gets as far as the mint the failure is "Token series is
\* not mintable".
C19_ClosedSeriesRefusesMint ==
    [][(/\ Len(series) >= 1
        /\ \A s \in 1..Len(series) : Closed(s)
        /\ last'.op \in MintOps)
       => /\ last'.err # ""
          /\ contract' = contract
          /\ last'.err \notin EntryRefusals => last'.err = "Token series is not mintable"
      ]_vars

\* the editions the registry lists for a series
IssuedSet(s) == {series[s].tokens[n] : n \in 1..Len(series[s].tokens)}

\* C20: the n-th edition listed for series s is s:n, and a successful mint
\* issues the identifier s:(n + 1) of a series with n editions, an identifier
\* that no series lists and no account owns, and appends it to that series.
C20_EditionIdsSequential ==
    /\ [](\A s \in 1..Len(series) : \A n \in 1..Len(series[s].tokens) :
              series[s].tokens[n] = TokenIdOf(s, n))
    /\ [][(last'.op \in MintOps /\ last'.err = "")
          => LET token_id == events'[1].id
                 s == SeriesOf(token_id)
             IN /\ s \in 1..Len(series)
                /\ token_id = TokenIdOf(s, Len(series[s].tokens) + 1)
                /\ \A t \in 1..Len(series) : token_id \notin IssuedSet(t)
                /\ token_id \notin DOMAIN owner_by_id
                /\ series'[s].tokens = Append(series[s].tokens, token_id)
         ]_vars

\* the second edition has just been minted after the first one was burned
C20_Witness ==
    /\ last.op \in MintOps
    /\ last.err = ""
    /\ events[1].id = TokenIdOf(1, 2)
    /\ TokenIdOf(1, 1) \notin DOMAIN owner_by_id
    /\ TokenIdOf(1, 2) \in DOMAIN owner_by_id
    /\ series[1].tokens = <<TokenIdOf(1, 1), TokenIdOf(1, 2)>>

---------------------------------------------------------------------------
(* Properties of series management.                                        *)

\* C21: a series whose is_mintable flag is false keeps it false through
\* every step.
C21_NonMintableIsFinal ==
    [][\A s \in 1..Len(series) : ~series[s].is_mintable => ~series'[s].is_mintable]_vars

\* an exhausted series has just had its cap changed to a value above the
\* minted count, and is still not mintable
C21_Witness ==
    /\ last.op = "nft_decrease_series_copies"
    /\ last.err = ""
    /\ Len(series) >= 1
    /\ Cap(1) > Issued(1)
    /\ ~series[1].is_mintable

\* C22: a call of nft_set_series_non_mintable succeeds only when the caller
\* is the creator of the series, the series is mintable and has no cap, and
\* then clears the flag of that series alone; any other call fails and
\* changes nothing. A capped series loses its flag only in a mint or a cap
\* decrease that leaves it with as many editions as its cap.
C22_NonMintableOnlyByCreatorUncapped ==
    /\ [][last'.op = "nft_set_series_non_mintable" =>
          \A caller \in SeriesCallers, id \in SeriesIds, attached \in OneYocto :
              nft_set_series_non_mintable(caller, id, attached)
              => IF /\ id \in 1..Len(series)
                    /\ caller = series[id].creator_id
                    /\ series[id].is_mintable
                    /\ ~Capped(id)
                    /\ attached = 1
                 THEN /\ last'.err = ""
                      /\ series' = [series EXCEPT ![id].is_mintable = FALSE]
                 ELSE /\ last'.err # ""
                      /\ contract' = contract
         ]_vars
    /\ [][\A s \in 1..Len(series) :
              (Capped(s) /\ series[s].is_mintable /\ ~series'[s].is_mintable)
              => /\ last'.op \in MintOps \cup {"nft_decrease_series_copies"}
                 /\ IsSome(series'[s].metadata.copies)
                 /\ Len(series'[s].tokens) = Unwrap(series'[s].metadata.copies)
         ]_vars

\* the creator has just closed an uncapped series that already has an edition
C22_Witness ==
    /\ last.op = "nft_set_series_non_mintable"
    /\ last.err = ""
    /\ ~Capped(1)
    /\ Issued(1) >= 1
    /\ ~series[1].is_mintable

\* C23: a call of nft_decrease_series_copies by the creator of a capped
\* series fails and leaves the series as it was when the cap less
\* decrease_copies is below the minted count, which includes every
\* decrease_copies above the cap; otherwise it succeeds, stores the cap less
\* decrease_copies, and clears is_mintable exactly when that equals the
\* minted count.
C23_DecreaseWithinMinted ==
    [][last'.op = "nft_decrease_series_copies" =>
       \A id \in SeriesIds, decrease_copies \in 0..MaxDecrease, overflow_checks \in BOOLEAN :
           (/\ id \in 1..Len(series)
            /\ Capped(id)
            /\ nft_decrease_series_copies(series[id].creator_id, id, decrease_copies, 1,
                                          overflow_checks))
           => IF Cap(id) - decrease_copies < Issued(id)
              THEN /\ last'.err # ""
                   /\ series' = series
              ELSE /\ last'.err = ""
                   /\ last'.ret = Cap(id) - decrease_copies
                   /\ series' = [series EXCEPT
                          ![id].metadata.copies = Some(Cap(id) - decrease_copies),
                          ![id].is_mintable = IF Cap(id) - decrease_copies = Issued(id)
                                              THEN FALSE ELSE @]
      ]_vars

---------------------------------------------------------------------------
(* Pricing: alice creates a series for herself or for bob, capped or not,  *)
(* with any price; either of them sets prices, closes and mints, while the *)
(* owner changes and stages the fee and block time passes.                 *)

NextPrice ==
    \/ \E next_fee \in {100, 200}, start_time \in {None, Some(1)} :
          set_transaction_fee(OwnerId, 1, next_fee, start_time)
    \/ Tick
    \/ \E creator_id \in {None, Some("bob")}, copies \in {None, Some(1)},
          price \in PriceInputs :
          /\ Len(series) < MaxSeries
          /\ nft_create_series("alice", creator_id, Some("title"), copies, price, None, 1)
    \/ \E caller \in SeriesCallers, id \in FeeSeriesIds, price \in PriceInputs,
          attached \in OneYocto :
          nft_set_series_price(caller, id, price, attached)
    \/ \E caller \in SeriesCallers, id \in FeeSeriesIds :
          nft_set_series_non_mintable(caller, id, 1)
    \/ \E caller \in SeriesCallers, id \in FeeSeriesIds :
          /\ id \in 1..Len(series) => Len(series[id].tokens) < MaxEditions
          /\ nft_mint(caller, id, "carol", 1)

SpecPrice == Init /\ [][NextPrice]_vars

\* C24: a call of nft_set_series_price succeeds only when the caller is the
\* creator of the series, the series is mintable and the price is absent or
\* below MAX_PRICE, and then stores that price; any other call fails and
\* changes neither a price nor a fee snapshot nor anything else. Every price
\* stored in the registry is below MAX_PRICE.
C24_PriceOnlyByCreatorBelowCeiling ==
    /\ [](\A s \in 1..Len(series) :
              IsSome(series[s].price) => Unwrap(series[s].price) < MAX_PRICE)
    /\ [][last'.op = "nft_set_series_price" =>
          \A caller \in SeriesCallers, id \in FeeSeriesIds, price \in PriceInputs,
             attached \in OneYocto :
              nft_set_series_price(caller, id, price, attached)
              => IF /\ id \in 1..Len(series)
                    /\ caller = series[id].creator_id
                    /\ series[id].is_mintable
                    /\ (price = None \/ Unwrap(price) < MAX_PRICE)
                    /\ attached = 1
                 THEN /\ last'.err = ""
                      /\ series' = [series EXCEPT ![id].price = price]
                 ELSE /\ last'.err # ""
                      /\ contract' = contract
         ]_vars

\* the creator's price change on a closed series has just been refused, at a
\* time when it would have replaced both the price and the snapshot
C24_Witness ==
    /\ last.op = "nft_set_series_price"
    /\ last.err = "Token series is not mintable"
    /\ Len(series) >= 1
    /\ ~series[1].is_mintable
    /\ IsSome(series[1].price)
    /\ market_data_transaction_fee[1]
           # calculate_current_transaction_fee(transaction_fee, now).current_fee

---------------------------------------------------------------------------
(* Properties of the edition read.                                         *)

---------------------------------------------------------------------------
(* Properties of the payout.                                               *)

\* the basis points of a royalty table that go to parties other than the owner
ConsumedBy(royalty, owner_id) == SumValues(royalty, (DOMAIN royalty) \ {owner_id})

\* C26: the payout nft_payout returns for an edition names the royalty
\* parties of its series and its owner; a party other than the owner gets
\* floor(basis points * balance / 10000), and the owner gets the floor of
\* (10000 - the basis points of the other parties) * balance / 10000, a
\* royalty entry of the owner's own being left out of both.
C26_PayoutShares ==
    (last.op = "nft_payout" /\ last.err = "") =>
        LET p == last.ret
            owner_id == owner_by_id[p.token_id]
            royalty == series[SeriesOf(p.token_id)].royalty
        IN  /\ DOMAIN p.payout = (DOMAIN royalty) \cup {owner_id}
            /\ \A k \in (DOMAIN royalty) \ {owner_id} :
                   p.payout[k] = (royalty[k] * p.balance) \div 10000
            /\ p.payout[owner_id]
                   = ((10000 - ConsumedBy(royalty, owner_id)) * p.balance) \div 10000

\* a payout has just been computed for an edition whose owner has a royalty
\* entry of its own, with a positive amount for another party
C26_Witness ==
    /\ last.op = "nft_payout"
    /\ last.err = ""
    /\ owner_by_id[last.ret.token_id] \in DOMAIN series[1].royalty
    /\ \E k \in DOMAIN last.ret.payout :
           k # owner_by_id[last.ret.token_id] /\ last.ret.payout[k] > 0

\* C27: a call of nft_transfer_payout that returns has made the receiver the
\* owner of the edition; with a balance it returns the payout computed as in
\* nft_payout against the owner before the call, whose share is the entry of
\* that owner, the receiver having an entry only as a royalty party; with no
\* balance it returns no payout.
C27_PayoutAgainstPreviousOwner ==
    [][(last'.op = "nft_transfer_payout" /\ last'.err = "") =>
       \A caller \in Accounts, receiver_id \in {events'[1].new_owner_id},
          token_id \in {events'[1].token_id},
          balance \in {None} \cup {Some(b) : b \in PayoutBalances},
          max_len_payout \in {None, Some(10)} :
           (/\ nft_transfer_payout(caller, receiver_id, token_id, None, balance,
                                   max_len_payout, 1)
            /\ last'.err = "")
           => LET previous_owner_id == owner_by_id[token_id]
                  royalty == series[SeriesOf(token_id)].royalty
              IN  /\ owner_by_id'[token_id] = receiver_id
                  /\ receiver_id # previous_owner_id
                  /\ IF balance = None THEN last'.ret = None
                     ELSE LET p == Unwrap(last'.ret) IN
                          /\ DOMAIN p.payout = (DOMAIN royalty) \cup {previous_owner_id}
                          /\ \A k \in (DOMAIN royalty) \ {previous_owner_id} :
                                 p.payout[k] = (royalty[k] * Unwrap(balance)) \div 10000
                          /\ p.payout[previous_owner_id]
                                 = ((10000 - ConsumedBy(royalty, previous_owner_id))
                                       * Unwrap(balance)) \div 10000
      ]_vars

\* an edition has just been transferred with a payout in which the previous
\* owner has a positive share and the receiver has no entry
C27_Witness ==
    /\ last.op = "nft_transfer_payout"
    /\ last.err = ""
    /\ IsSome(last.ret)
    /\ Unwrap(last.ret).previous_owner_id # owner_by_id[TokenIdOf(1, 1)]
    /\ Unwrap(last.ret).payout[Unwrap(last.ret).previous_owner_id] > 0
    /\ owner_by_id[TokenIdOf(1, 1)] \notin DOMAIN Unwrap(last.ret).payout
    /\ Len(series[1].tokens) = 1

---------------------------------------------------------------------------
(* Authorization: one edition of alice's series, approvals granted and     *)
(* revoked by its owners, and the four transfer methods called by any      *)
(* account with any approval_id; the hook of nft_transfer_call keeps the   *)
(* edition and its callback runs.                                          *)

NextApproval ==
    \/ /\ Len(series) < 1
       /\ nft_create_series("alice", None, Some("title"), None, None,
                            Some([k \in {"carol"} |-> 1000]), 1)
    \/ /\ EditionBound
       /\ nft_mint("alice", 1, "alice", 1)
    \/ /\ EditionBound
       /\ nft_mint_and_approve("alice", 1, "bob", None, 1)
    \/ \E caller \in Accounts, token_id \in EditionInputs, account_id \in {"bob", "carol"} :
          nft_approve(caller, token_id, account_id, 1)
    \/ \E caller \in Accounts, token_id \in EditionInputs, account_id \in {"bob", "carol"} :
          nft_revoke(caller, token_id, account_id, 1)
    \/ \E caller \in Accounts, receiver_id \in Accounts, token_id \in EditionInputs,
          approval_id \in ApprovalIdInputs :
          nft_transfer_unsafe(caller, receiver_id, token_id, approval_id, 0)
    \/ \E caller \in Accounts, receiver_id \in Accounts, token_id \in EditionInputs,
          approval_id \in ApprovalIdInputs :
          nft_transfer(caller, receiver_id, token_id, approval_id, 1)
    \/ \E caller \in Accounts, receiver_id \in Accounts, token_id \in EditionInputs,
          approval_id \in ApprovalIdInputs :
          nft_transfer_call(caller, receiver_id, token_id, approval_id, 1)
    \/ \E caller \in Accounts, receiver_id \in Accounts, token_id \in EditionInputs,
          approval_id \in ApprovalIdInputs :
          nft_transfer_payout(caller, receiver_id, token_id, approval_id,
                              Some(MaxBalance), Some(10), 1)
    \/ \E i \in 1..MaxCalls : nft_on_transfer(i, "keep")
    \/ \E i \in 1..MaxCalls : ResolveCallback(i)

SpecApproval == Init /\ [][NextApproval]_vars

---------------------------------------------------------------------------
(* Properties of the authorization of transfers.                           *)

TransferOps == {"nft_transfer", "nft_transfer_unsafe", "nft_transfer_call", "nft_transfer_payout"}

\* the caller owns the edition
IsOwner(caller, token_id) == HeldBy(owner_by_id, token_id, caller)

\* the caller is in the approval table of the edition with the approval_id
\* it supplies
HoldsApproval(caller, token_id, approval_id) ==
    /\ IsSome(approval_id)
    /\ caller \in DOMAIN TableOf(approvals_by_id, token_id)
    /\ TableOf(approvals_by_id, token_id)[caller] = Unwrap(approval_id)

\* this step is a call of a transfer method with these arguments
TransferStep(caller, receiver_id, token_id, approval_id) ==
    \/ nft_transfer_unsafe(caller, receiver_id, token_id, approval_id, 0)
    \/ nft_transfer(caller, receiver_id, token_id, approval_id, 1)
    \/ nft_transfer_call(caller, receiver_id, token_id, approval_id, 1)
    \/ nft_transfer_payout(caller, receiver_id, token_id, approval_id,
                           Some(MaxBalance), Some(10), 1)

\* C28: a call of nft_transfer, nft_transfer_unsafe, nft_transfer_call or
\* nft_transfer_payout by a caller that neither owns the edition nor is in
\* its approval table with the approval_id it supplies fails and leaves the
\* owners, the approval tables and the per-owner indices as they were.
C28_TransferOnlyByOwnerOrApproved ==
    [][last'.op \in TransferOps =>
       \A caller \in Accounts, receiver_id \in Accounts, token_id \in EditionInputs,
          approval_id \in ApprovalIdInputs :
           (/\ TransferStep(caller, receiver_id, token_id, approval_id)
            /\ ~IsOwner(caller, token_id)
            /\ ~HoldsApproval(caller, token_id, approval_id))
           => /\ last'.err # ""
              /\ owner_by_id' = owner_by_id
              /\ approvals_by_id' = approvals_by_id
              /\ tokens_per_owner' = tokens_per_owner
      ]_vars

\* C29: a call of a transfer method without an approval_id by a caller that
\* does not own the edition fails and leaves the owners as they were, also
\* when the caller is in the approval table of the edition.
C29_NoApprovalIdOnlyOwner ==
    [][last'.op \in TransferOps =>
       \A caller \in Accounts, receiver_id \in Accounts, token_id \in EditionInputs :
           (/\ TransferStep(caller, receiver_id, token_id, None)
            /\ ~IsOwner(caller, token_id))
           => /\ last'.err # ""
              /\ owner_by_id' = owner_by_id
      ]_vars

\* C30: when a call of a transfer method has returned, the edition it moved
\* has an empty approval table, so no account approved before the transfer
\* is approved after it.
C30_TransferClearsApprovals ==
    [][(last'.op \in TransferOps /\ last'.err = "")
       => LET token_id == events'[1].token_id IN
          /\ owner_by_id'[token_id] # owner_by_id[token_id]
          /\ TableOf(approvals_by_id', token_id) = EmptyMap
          /\ \A a \in DOMAIN TableOf(approvals_by_id, token_id) :
                 a \notin DOMAIN TableOf(approvals_by_id', token_id)
      ]_vars

\* an approved account has just transferred an edition for which two
\* approvals had been handed out, and the edition has no approvals
C30_Witness ==
    /\ last.op \in TransferOps
    /\ last.err = ""
    /\ events[1].authorized_id # None
    /\ TokenIdOf(1, 1) \in DOMAIN next_approval_id_by_id
    /\ next_approval_id_by_id[TokenIdOf(1, 1)] = 3
    /\ TableOf(approvals_by_id, TokenIdOf(1, 1)) = EmptyMap

---------------------------------------------------------------------------
(* Properties of nft_mint_and_approve and of approval ids.                 *)

\* C31: a call of nft_mint_and_approve succeeds exactly when the caller is
\* the creator of the series, the series is mintable and below its cap and
\* the deposit covers the storage; the edition it mints is new, is owned by
\* the creator and has the approval table {account_id: 1}, and the call
\* leaves no callback behind, whether it sends the hook or not.
C31_MintAndApprove ==
    [][last'.op = "nft_mint_and_approve" =>
       \A caller \in SeriesCallers, id \in SeriesIds, msg \in {None, Some("msg")},
          attached \in OneYocto :
           nft_mint_and_approve(caller, id, "bob", msg, attached)
           => IF /\ id \in 1..Len(series)
                 /\ caller = series[id].creator_id
                 /\ series[id].is_mintable
                 /\ (Capped(id) => Issued(id) < Cap(id))
                 /\ attached >= STORAGE_COST
              THEN LET token_id == TokenIdOf(id, Issued(id) + 1) IN
                   /\ last'.err = ""
                   /\ token_id \notin DOMAIN owner_by_id
                   /\ owner_by_id' = MapPut(owner_by_id, token_id, series[id].creator_id)
                   /\ TableOf(approvals_by_id', token_id) = [a \in {"bob"} |-> 1]
                   /\ IsSome(last'.ret) = IsSome(msg)
                   /\ calls' = calls
              ELSE /\ last'.err # ""
                   /\ contract' = contract
                   /\ calls' = calls
      ]_vars

\* alice has just minted an edition of her series to herself and approved
\* bob for it, with a message for bob's hook
C31_Witness ==
    /\ last.op = "nft_mint_and_approve"
    /\ last.err = ""
    /\ IsSome(last.ret)
    /\ events[1].id \in DOMAIN owner_by_id
    /\ owner_by_id[events[1].id] = "alice"
    /\ TableOf(approvals_by_id, events[1].id) = [a \in {"bob"} |-> 1]

\* the approval_id the next approval of an edition gets
NextIdIn(counters, token_id) == IF token_id \in DOMAIN counters THEN counters[token_id] ELSE 1

\* the approval ids of a table are different and were handed out before
HandedOut(table, token_id) ==
    /\ \A a \in DOMAIN table : table[a] \in 1..(NextIdIn(next_approval_id_by_id, token_id) - 1)
    /\ \A a, b \in DOMAIN table : table[a] = table[b] => a = b

\* C32: the approval ids of an edition are handed out in the order 1, 2, 3,
\* ...: an approval gets the edition's counter and moves it on by one, the
\* counter of an edition that has an owner never goes back, the ids in the
\* edition's approval table and in a table a pending rollback would restore
\* are different ids below the counter, and an edition that lost its owner
\* gets none again.
C32_ApprovalIdsIncrease ==
    /\ [](\A token_id \in DOMAIN owner_by_id :
              /\ HandedOut(TableOf(approvals_by_id, token_id), token_id)
              /\ \A i \in DOMAIN calls :
                     (calls[i].token_id = token_id /\ IsSome(calls[i].approved_account_ids))
                     => HandedOut(Unwrap(calls[i].approved_account_ids), token_id))
    /\ [][\A token_id \in DOMAIN owner_by_id :
              /\ token_id \in DOMAIN owner_by_id'
                     => NextIdIn(next_approval_id_by_id', token_id)
                            >= NextIdIn(next_approval_id_by_id, token_id)
              /\ TableOf(approvals_by_id', token_id) # TableOf(approvals_by_id, token_id)
                     => \A a \in DOMAIN TableOf(approvals_by_id', token_id) :
                            TableOf(approvals_by_id', token_id)[a]
                                < NextIdIn(next_approval_id_by_id', token_id)
         ]_vars
    /\ [][(last'.op = "nft_approve" /\ last'.err = "")
          => \E token_id \in DOMAIN owner_by_id :
                 /\ last'.ret = NextIdIn(next_approval_id_by_id, token_id)
                 /\ NextIdIn(next_approval_id_by_id', token_id) = last'.ret + 1
                 /\ \E a \in DOMAIN TableOf(approvals_by_id', token_id) :
                        /\ TableOf(approvals_by_id', token_id)[a] = last'.ret
                        /\ \A b \in DOMAIN TableOf(approvals_by_id, token_id) \ {a} :
                               TableOf(approvals_by_id', token_id)[b]
                                   = TableOf(approvals_by_id, token_id)[b]
         ]_vars
    /\ [][(last'.op = "nft_mint_and_approve" /\ last'.err = "")
          => LET token_id == events'[1].id IN
             /\ \A a \in DOMAIN TableOf(approvals_by_id', token_id) :
                    TableOf(approvals_by_id', token_id)[a] = 1
             /\ NextIdIn(next_approval_id_by_id', token_id) = 2
         ]_vars
    /\ [][\A s \in 1..Len(series) : \A token_id \in IssuedSet(s) :
              token_id \notin DOMAIN owner_by_id => token_id \notin DOMAIN owner_by_id'
         ]_vars

\* after a rollback has restored the table {bob: 1}, the owner has just
\* approved carol, who got the approval_id 2
C32_Witness ==
    /\ last.op = "nft_approve"
    /\ last.err = ""
    /\ last.ret = 2
    /\ \E i \in DOMAIN calls : calls[i].stage = "rolledback"
    /\ TableOf(approvals_by_id, TokenIdOf(1, 1)) = [a \in {"bob", "carol"} |-> IF a = "bob" THEN 1 ELSE 2]

---------------------------------------------------------------------------
(* The list views and the two supplies (lib.rs:790-842, 989-1050).         *)

\* usize::MAX on the wasm32 target the contract is built for: the 32 bits of
\* U32_MAX, scaled as it is
USIZE_MAX == U32_MAX

\* `v as usize`: a u64 cut to the width of usize
as_usize(v) == v % (USIZE_MAX + 1)

\* .iter().skip(start_index as usize).take(limit)
skip_take(items, start_index, limit) == SubSeq(items, start_index + 1, IF Len(items) < start_index + limit THEN Len(items) ELSE start_index + limit)

\* lib.rs:795-801, 827-834, 997-1003: the start index with its default, the
\* bounds assertion, the limit with its default and the assertion on it, in
\* the order nft_get_series, nft_tokens_by_series and nft_tokens make them
Page(items, from_index, limit) ==
    LET start_index == IF IsSome(from_index) THEN Unwrap(from_index) ELSE 0
        lim == IF IsSome(limit) THEN as_usize(Unwrap(limit)) ELSE USIZE_MAX
    IN  IF ~(Len(items) > start_index)
        THEN [err |-> "Out of bounds, please use a smaller from_index."]
        ELSE IF lim = 0 THEN [err |-> "Cannot provide limit of 0."]
        ELSE [err |-> "", page |-> skip_take(items, start_index, lim)]

\* lib.rs:1037-1043: nft_tokens_for_owner asserts the limit first
PageForOwner(items, from_index, limit) ==
    LET lim == IF IsSome(limit) THEN as_usize(Unwrap(limit)) ELSE USIZE_MAX
        start_index == IF IsSome(from_index) THEN Unwrap(from_index) ELSE 0
    IN  IF lim = 0 THEN [err |-> "Cannot provide limit of 0."]
        ELSE IF ~(Len(items) > start_index)
        THEN [err |-> "Out of bounds, please use a smaller from_index."]
        ELSE [err |-> "", page |-> skip_take(items, start_index, lim)]

\* .map(|token_id| self.nft_token(token_id).unwrap()).collect()
TokenViews(op, r) ==
    IF r.err # "" THEN Err(op, r.err)
    ELSE IF \E i \in 1..Len(r.page) : ~IsSome(nft_token(r.page[i]))
    THEN Err(op, "called Option::unwrap() on a None value")
    ELSE Ok(op, [i \in 1..Len(r.page) |-> Unwrap(nft_token(r.page[i]))])

\* a view call: it answers and writes nothing
ViewStep(r) ==
    /\ last' = r
    /\ events' = <<>>
    /\ payments' = <<>>
    /\ UNCHANGED <<contract, now, calls>>

\* the key order of the TreeMap owner_by_id; the ids of the model have one
\* digit on each side of the delimiter, where the order of the strings is the
\* order of the numbers
TokenBefore(a, b) == a[1] < b[1] \/ (a[1] = b[1] /\ a[2] < b[2])

\* owner_by_id.iter(): the keys in their order
RECURSIVE TokensInOrder(_)
TokensInOrder(ids) ==
    IF ids = {} THEN <<>>
    ELSE LET first == CHOOSE a \in ids : \A b \in ids \ {a} : TokenBefore(a, b)
         IN  <<first>> \o TokensInOrder(ids \ {first})

\* token_set.iter() of an UnorderedSet: the model keeps the set and not the
\* order insertions and swap-removes gave it, so the listing may be any order
Enumerations(ids) ==
    {order \in [1..Cardinality(ids) -> ids] :
        \A i, j \in 1..Cardinality(ids) : order[i] = order[j] => i = j}

\* lib.rs:790-815
nft_get_series(from_index, limit) ==
    LET op == "nft_get_series"
        r == Page([i \in 1..Len(series) |-> i], from_index, limit)
    IN  ViewStep(IF r.err # "" THEN Err(op, r.err)
                 ELSE Ok(op, [i \in 1..Len(r.page) |->
                                 [ token_series_id |-> r.page[i],
                                   metadata |-> series[r.page[i]].metadata,
                                   creator_id |-> series[r.page[i]].creator_id,
                                   royalty |-> series[r.page[i]].royalty,
                                   transaction_fee |-> None ]]))

\* lib.rs:817-819
nft_supply_for_series(token_series_id) ==
    ViewStep(IF ~IsSome(SeriesGet(token_series_id))
             THEN Err("nft_supply_for_series", "Token series not exist")
             ELSE Ok("nft_supply_for_series", Len(Unwrap(SeriesGet(token_series_id)).tokens)))

\* lib.rs:821-842
nft_tokens_by_series(token_series_id, from_index, limit) ==
    LET op == "nft_tokens_by_series" IN
    IF ~IsSome(SeriesGet(token_series_id))
    THEN ViewStep(Err(op, "called Option::unwrap() on a None value"))
    ELSE ViewStep(TokenViews(op, Page(Unwrap(SeriesGet(token_series_id)).tokens,
                                      from_index, limit)))

\* lib.rs:989-991
nft_total_supply == ViewStep(Ok("nft_total_supply", Cardinality(DOMAIN owner_by_id)))

\* lib.rs:993-1011
nft_tokens(from_index, limit) ==
    ViewStep(TokenViews("nft_tokens",
                        Page(TokensInOrder(DOMAIN owner_by_id), from_index, limit)))

\* lib.rs:1023-1050
nft_tokens_for_owner(account_id, from_index, limit) ==
    LET op == "nft_tokens_for_owner" IN
    IF account_id \notin DOMAIN tokens_per_owner THEN ViewStep(Ok(op, <<>>))
    ELSE \E order \in Enumerations(tokens_per_owner[account_id]) :
             ViewStep(TokenViews(op, PageForOwner(order, from_index, limit)))

---------------------------------------------------------------------------
(* The listings: alice creates series and mints editions to herself and to *)
(* bob, the two move and burn them, and anyone reads the lists.            *)

ListAccounts == {"alice", "bob"}
ListTokens == {TokenIdOf(s, n) : s \in FeeSeriesIds, n \in 1..MaxMint}
FromIndexInputs == {None} \cup {Some(i) : i \in 0..MaxMint}
LimitInputs == {None, Some(USIZE_MAX + 1)} \cup {Some(i) : i \in 0..MaxMint}

NextList ==
    \/ /\ Len(series) < MaxRegistry
       /\ nft_create_series("alice", None, Some("title"), None, None, None, 1)
    \/ \E id \in FeeSeriesIds, receiver_id \in ListAccounts :
          /\ MintBound(id)
          /\ nft_mint("alice", id, receiver_id, 1)
    \/ \E caller \in ListAccounts, token_id \in ListTokens : nft_burn(caller, token_id, 1)
    \/ \E caller \in ListAccounts, receiver_id \in ListAccounts, token_id \in ListTokens :
          nft_transfer(caller, receiver_id, token_id, None, 1)
    \/ \E from_index \in FromIndexInputs, limit \in LimitInputs :
          nft_get_series(from_index, limit)
    \/ \E id \in FeeSeriesIds : nft_supply_for_series(id)
    \/ \E id \in FeeSeriesIds, from_index \in FromIndexInputs, limit \in LimitInputs :
          nft_tokens_by_series(id, from_index, limit)
    \/ nft_total_supply
    \/ \E from_index \in FromIndexInputs, limit \in LimitInputs :
          nft_tokens(from_index, limit)
    \/ \E account_id \in ListAccounts, from_index \in FromIndexInputs, limit \in LimitInputs :
          nft_tokens_for_owner(account_id, from_index, limit)

SpecList == Init /\ [][NextList]_vars

---------------------------------------------------------------------------
(* Properties of the list views.                                           *)

\* the answer of a list call over a collection of `size` entries: refused
\* when the start is at or past the size, refused for a limit of 0
Paginated(size, from_index, limit) ==
    /\ (IF IsSome(from_index) THEN Unwrap(from_index) ELSE 0) >= size => last'.err # ""
    /\ limit = Some(0) => last'.err # ""

\* the entries an account has in the per-owner index
OwnedCount(account_id) ==
    IF account_id \in DOMAIN tokens_per_owner
    THEN Cardinality(tokens_per_owner[account_id]) ELSE 0

\* C33: the four list views follow one pagination contract: a call without
\* from_index is the call with from_index 0, a call without limit is the call
\* with a limit past the size of the collection, a limit of 0 is refused, and
\* a from_index at or past the size of the collection is refused, an empty
\* collection included.
C33_OnePaginationContract ==
    [][ /\ last'.op = "nft_get_series"
           => \A from_index \in FromIndexInputs, limit \in LimitInputs :
                  /\ nft_get_series(from_index, limit)
                         => Paginated(Len(series), from_index, limit)
                  /\ nft_get_series(None, limit) <=> nft_get_series(Some(0), limit)
                  /\ nft_get_series(from_index, None)
                         <=> nft_get_series(from_index, Some(Len(series) + 1))
        /\ last'.op = "nft_tokens_by_series"
           => \A id \in 1..Len(series), from_index \in FromIndexInputs, limit \in LimitInputs :
                  /\ nft_tokens_by_series(id, from_index, limit)
                         => Paginated(Len(series[id].tokens), from_index, limit)
                  /\ nft_tokens_by_series(id, None, limit)
                         <=> nft_tokens_by_series(id, Some(0), limit)
                  /\ nft_tokens_by_series(id, from_index, None)
                         <=> nft_tokens_by_series(id, from_index,
                                                  Some(Len(series[id].tokens) + 1))
        /\ last'.op = "nft_tokens"
           => \A from_index \in FromIndexInputs, limit \in LimitInputs :
                  /\ nft_tokens(from_index, limit)
                         => Paginated(Cardinality(DOMAIN owner_by_id), from_index, limit)
                  /\ nft_tokens(None, limit) <=> nft_tokens(Some(0), limit)
                  /\ nft_tokens(from_index, None)
                         <=> nft_tokens(from_index, Some(Cardinality(DOMAIN owner_by_id) + 1))
        /\ last'.op = "nft_tokens_for_owner"
           => \A account_id \in ListAccounts, from_index \in FromIndexInputs,
                 limit \in LimitInputs :
                  /\ nft_tokens_for_owner(account_id, from_index, limit)
                         => Paginated(OwnedCount(account_id), from_index, limit)
                  /\ nft_tokens_for_owner(account_id, None, limit)
                         <=> nft_tokens_for_owner(account_id, Some(0), limit)
                  /\ nft_tokens_for_owner(account_id, from_index, None)
                         <=> nft_tokens_for_owner(account_id, from_index,
                                                  Some(OwnedCount(account_id) + 1))
      ]_vars

---------------------------------------------------------------------------
(* The sale: a contract initialised with any current_fee, its owner        *)
(* changing and staging the fee, alice's series with its price, and bob    *)
(* buying editions with deposits around the price.                         *)

BuyPriceInputs == {None, Some(10000), Some(10050)}
BuyDeposits == {10000, 10001, 10050, 10051}

NextBuy ==
    \/ \E next_fee \in {0, 100, BASIS}, start_time \in {None, Some(1)} :
          set_transaction_fee(OwnerId, 1, next_fee, start_time)
    \/ Tick
    \/ /\ Len(series) < MaxSeries
       /\ \E price \in BuyPriceInputs :
             nft_create_series("alice", None, Some("title"), None, price, None, 1)
    \/ \E price \in BuyPriceInputs : nft_set_series_price("alice", 1, price, 1)
    \/ \E id \in SeriesIds, attached \in BuyDeposits : nft_buy("bob", id, "bob", attached)

SpecBuy == InitNew /\ [][NextBuy]_vars

---------------------------------------------------------------------------
(* Properties of the sale.                                                 *)


\* C34: nft_buy mints only for a series that has a price and a deposit of at
\* least the price, and a call that fails mints nothing; of a sale the
\* treasury gets floor(price * snapshot / 10000), the snapshot being the fee
\* stored for the series and not the global fee, the creator gets the rest,
\* and the two amounts sum to the price.
C34_BuySplitsPriceBySnapshot ==
    [][last'.op = "nft_buy"
       => \A id \in SeriesIds, attached \in BuyDeposits :
              nft_buy("bob", id, "bob", attached)
              => IF last'.err = ""
                 THEN /\ id \in 1..Len(series)
                      /\ IsSome(series[id].price)
                      /\ attached >= Unwrap(series[id].price)
                      /\ id \in DOMAIN market_data_transaction_fee
                      /\ Len(series'[id].tokens) = Len(series[id].tokens) + 1
                      /\ LET price == Unwrap(series[id].price)
                             share == (price * market_data_transaction_fee[id]) \div BASIS
                         IN  /\ payments'[1] = <<series[id].creator_id, price - share>>
                             /\ IF share = 0 THEN Len(payments') = 1
                                ELSE Len(payments') = 2 /\ payments'[2] = <<"treasury", share>>
                             /\ payments'[1][2] + share = price
                             /\ payments'[1][2] >= 0
                 ELSE contract' = contract /\ payments' = <<>>
      ]_vars

\* C37: whatever current_fee the contract was initialised with, the
\* current_fee, the staged next_fee and every snapshot are below 10000 in
\* every reachable state, so that in a sale the treasury's share is at most
\* the price and the creator's share, the price less that share, is not
\* negative.
C37_FeesBelowDenominator ==
    /\ [](/\ transaction_fee.current_fee < BASIS
          /\ IsSome(transaction_fee.next_fee) => Unwrap(transaction_fee.next_fee) < BASIS
          /\ \A id \in DOMAIN market_data_transaction_fee :
                 market_data_transaction_fee[id] < BASIS)
    /\ [][(last'.op = "nft_buy" /\ last'.err = "")
          => LET price == Unwrap(series[SeriesOf(events'[1].id)].price)
                 share == (price * calculate_market_data_transaction_fee(
                                       SeriesOf(events'[1].id))) \div BASIS
             IN  share <= price /\ payments'[1][2] = price - share
         ]_vars

---------------------------------------------------------------------------
(* Properties of the burn and of the per-owner index.                      *)

\* an edition that was issued and has no owner record
Burned(token_id) ==
    /\ SeriesOf(token_id) \in 1..Len(series)
    /\ token_id \in IssuedSet(SeriesOf(token_id))
    /\ token_id \notin DOMAIN owner_by_id

\* C35: nft_burn by the owner of the edition succeeds and leaves no owner
\* record (nft_token answers nothing), no approvals and no entry of the
\* edition in the index of any account; nft_burn by anyone else, or of an
\* edition with no owner, fails and changes nothing; and an edition that was
\* burned stays without owner: no later burn or transfer of it succeeds.
C35_BurnByOwnerOnly ==
    /\ [][last'.op = "nft_burn"
          => \A caller \in Accounts, token_id \in EditionInputs :
                 nft_burn(caller, token_id, 1)
                 => IF HeldBy(owner_by_id, token_id, caller)
                    THEN /\ last'.err = ""
                         /\ token_id \notin DOMAIN owner_by_id'
                         /\ ~IsSome(nft_token(token_id)')
                         /\ token_id \notin DOMAIN approvals_by_id'
                         /\ \A a \in DOMAIN tokens_per_owner' :
                                token_id \notin tokens_per_owner'[a]
                    ELSE last'.err # "" /\ contract' = contract /\ calls' = calls
         ]_vars
    /\ [][\A token_id \in EditionInputs :
              Burned(token_id)
              => /\ token_id \notin DOMAIN owner_by_id'
                 /\ ~(/\ last'.op \in TransferOps \cup {"nft_burn"}
                      /\ last'.err = ""
                      /\ events'[1].token_id = token_id)
         ]_vars

\* bob, who got the edition from alice, burned it, and a burn of it has just
\* been refused
C35_Witness ==
    /\ last.op = "nft_burn"
    /\ last.err # ""
    /\ Burned(TokenIdOf(1, 1))
    /\ "bob" \in DOMAIN tokens_per_owner
    /\ tokens_per_owner["bob"] = {}

---------------------------------------------------------------------------
(* The index: editions of alice's priced series are minted and bought,     *)
(* moved by plain and by two-phase transfers whose hooks keep, return or   *)
(* fail, and burned.                                                       *)

IndexTokens == {TokenIdOf(1, n) : n \in 1..MaxMint}

NextIndex ==
    \/ /\ Len(series) < 1
       /\ nft_create_series("alice", None, Some("title"), None, Some(10000), None, 1)
    \/ \E receiver_id \in ListAccounts :
          /\ MintBound(1)
          /\ nft_mint("alice", 1, receiver_id, 1)
    \/ nft_buy("bob", 1, "bob", 10000 + STORAGE_COST)
    \/ \E caller \in ListAccounts, receiver_id \in Accounts, token_id \in IndexTokens :
          nft_transfer(caller, receiver_id, token_id, None, 1)
    \/ \E caller \in ListAccounts, receiver_id \in Accounts, token_id \in IndexTokens :
          nft_transfer_call(caller, receiver_id, token_id, None, 1)
    \/ \E i \in 1..MaxCalls, result \in {"keep", "return", "failed"} :
          nft_on_transfer(i, result)
    \/ \E i \in 1..MaxCalls : ResolveCallback(i)
    \/ \E caller \in Accounts, token_id \in IndexTokens : nft_burn(caller, token_id, 1)

SpecIndex == Init /\ [][NextIndex]_vars

\* the accounts whose set in the per-owner index holds the edition
IndexedBy(token_id) ==
    {a \in DOMAIN tokens_per_owner : token_id \in tokens_per_owner[a]}

\* C36: in every reachable state an edition is in the set the per-owner
\* index keeps for an account exactly when the ownership ledger records that
\* account as its owner: every edition with an owner is in the set of that
\* one account, and an edition without owner is in none.
C36_IndexAgreesWithLedger ==
    /\ \A token_id \in DOMAIN owner_by_id : IndexedBy(token_id) = {owner_by_id[token_id]}
    /\ \A a \in DOMAIN tokens_per_owner : \A token_id \in tokens_per_owner[a] :
           HeldBy(owner_by_id, token_id, a)
    /\ \A token_id \in IndexTokens : Burned(token_id) => IndexedBy(token_id) = {}

\* a rollback has just returned the first edition to alice, while bob holds
\* the edition he bought
C36_Witness ==
    /\ last.op = "nft_resolve_transfer"
    /\ last.ret = FALSE
    /\ HeldBy(owner_by_id, TokenIdOf(1, 1), "alice")
    /\ HeldBy(owner_by_id, TokenIdOf(1, 2), "bob")
    /\ tokens_per_owner = [a \in {"alice", "bob"} |-> IF a = "alice" THEN {TokenIdOf(1, 1)} ELSE {TokenIdOf(1, 2)}]

---------------------------------------------------------------------------
(* Properties of the payout and of the fee view.                           *)

\* C38: the payout map nft_payout or nft_transfer_payout returns has at most
\* max_len_payout entries, whatever the royalty table and whoever the owner,
\* an owner that is no royalty party included.
C38_PayoutWithinMaxLen ==
    IsSome(LastPayout)
    => Cardinality(DOMAIN Unwrap(LastPayout).payout) <= Unwrap(LastPayout).max_len_payout

\* C39: in every reachable state the view get_market_data_transaction_fee
\* answers, for every series id, what calculate_market_data_transaction_fee
\* would return if it were called in that state, whether or not the id has a
\* snapshot and whether or not a staged fee is due.
C39_FeeViewAgreesWithCalculate ==
    \A id \in FeeSeriesIds :
        get_market_data_transaction_fee(id) = calculate_market_data_transaction_fee(id)

---------------------------------------------------------------------------
(* Properties of the listing of a series.                                  *)

\* C40: for a series with issued editions, a from_index below their number
\* and a limit that is not refused, nft_tokens_by_series succeeds and returns
\* the view of every edition it lists, whatever was minted, moved and burned
\* before; nft_supply_for_series counts the issued editions, the burned ones
\* included, and nft_total_supply the editions that have an owner.
C40_SeriesListedAfterBurns ==
    [][ /\ last'.op = "nft_tokens_by_series"
           => \A id \in 1..Len(series), from_index \in FromIndexInputs, limit \in LimitInputs :
                  (/\ nft_tokens_by_series(id, from_index, limit)
                   /\ (IF IsSome(from_index) THEN Unwrap(from_index) ELSE 0)
                          < Len(series[id].tokens)
                   /\ IsSome(limit) => as_usize(Unwrap(limit)) # 0)
                  => /\ last'.err = ""
                     /\ Len(last'.ret) >= 1
                     /\ \A i \in 1..Len(last'.ret) :
                            last'.ret[i].token_id \in IssuedSet(id)
        /\ last'.op = "nft_supply_for_series"
           => \A id \in 1..Len(series) :
                  nft_supply_for_series(id) => last'.ret = Len(series[id].tokens)
        /\ last'.op = "nft_total_supply"
           => last'.ret = Cardinality(DOMAIN owner_by_id)
      ]_vars

====
